---- MODULE Spec2Model ----
(***************************************************************************)
(* A model of the PMO report generator's ingestion engine                  *)
(* (src/pmo_helpers.py): column resolution, field parsing, metric          *)
(* derivation, record extraction and process_excel_file.                   *)
(*                                                                         *)
(* Representation.                                                         *)
(*  - A Python str is a sequence of one-character strings, so that         *)
(*    lower(), strip(), replace(), split()/join() and the `in` substring   *)
(*    test are computed character by character.                            *)
(*  - A Python value is a tagged record: NaN (an empty cell), None,        *)
(*    StrV(chars), NumV(v), DateV(ticks, tz), an exception Exc(e).         *)
(*  - A Python float is Fin(n), n an integer count of hundredths (12.34 is *)
(*    Fin(1234)), or one of inf, -inf, nan.  The cells of the model carry  *)
(*    at most two decimals and stay far from the range limits of a float,  *)
(*    so finite sums are exact.  round(x, 1) is exact except on a tie      *)
(*    (x.x5), where the binary value of a float decides: there both        *)
(*    neighbours are possible results.                                     *)
(*  - A datetime is an integer count of half days since 1970-01-01 00:00   *)
(*    (an even tick is a midnight), with a flag for a timezone-aware one.  *)
(***************************************************************************)
EXTENDS Integers, Sequences, FiniteSets, TLC

VARIABLES
    file,         \* the upload: [readable, columns, rows], what read_excel sees
    now,          \* the clock datetime.now() reads, in ticks
    pc,           \* position in process_excel_file
    df,           \* the DataFrame read from the file: [columns, rows]
    column_map,   \* map_columns' first result: FieldKey -> header
    missing_cols, \* map_columns' second result: the unresolved FieldKeys
    idx,          \* the row df.iterrows() yields next
    projects,     \* the records collected so far
    extracted,    \* history: the row numbers extract_project_data was called on
    ret,          \* the value returned: [projects, error]
    llm_formatter,\* llm_integration's global formatter instance
    app_i,        \* the caller's position in its loop over the returned projects
    call,         \* a function under test: its argument and its results so far
    fs,           \* the files of the temporary directory: path -> content
    sent          \* the responses upload_file has sent, one per upload

vars ==
    <<file, now, pc, df, column_map, missing_cols, idx, projects, extracted, ret,
      llm_formatter, app_i, call, fs, sent>>

--------------------------------------------------------------------------
(* Python values *)

None == [t |-> "none"]
NaN == [t |-> "nan"]
StrV(s) == [t |-> "str", s |-> s]
NumV(v) == [t |-> "num", v |-> v]
DateV(ticks, tz) == [t |-> "date", ticks |-> ticks, tz |-> tz]
\* A Python int
IntV(v) == [t |-> "int", v |-> v]
Exc(e) == [t |-> "exc", e |-> e]

IsExc(x) == x.t = "exc"

\* The element of a one-element set: Only({e}) evaluates e once, where a
\* LET definition is evaluated at each use.
Only(S) == CHOOSE x \in S : TRUE

SetMin(S) == CHOOSE x \in S : \A y \in S : x <= y
SetMax(S) == CHOOSE x \in S : \A y \in S : x >= y

--------------------------------------------------------------------------
(* str methods *)

Capitals ==
    <<"A","B","C","D","E","F","G","H","I","J","K","L","M",
      "N","O","P","Q","R","S","T","U","V","W","X","Y","Z">>

Smalls ==
    <<"a","b","c","d","e","f","g","h","i","j","k","l","m",
      "n","o","p","q","r","s","t","u","v","w","x","y","z">>

Digits == <<"0","1","2","3","4","5","6","7","8","9">>

IsSpace(c) == c \in {" ", "\t", "\n", "\r"}

LOWER_OF ==
    [c \in {Capitals[i] : i \in 1..Len(Capitals)} |->
        Smalls[CHOOSE i \in 1..Len(Capitals) : Capitals[i] = c]]

LowerChar(c) == IF c \in DOMAIN LOWER_OF THEN LOWER_OF[c] ELSE c

\* s.lower()
str_lower(s) == [i \in 1..Len(s) |-> LowerChar(s[i])]

\* s.strip()
str_strip(s) ==
    LET keep == {i \in 1..Len(s) : ~IsSpace(s[i])}
    IN  IF keep = {} THEN <<>> ELSE SubSeq(s, SetMin(keep), SetMax(keep))

\* sub in s
str_contains(s, sub) ==
    \E i \in 1..(Len(s) - Len(sub) + 1) : SubSeq(s, i, i + Len(sub) - 1) = sub

\* s.replace(old, ''), old non-empty: leftmost occurrences, not overlapping
RECURSIVE str_remove(_, _)
str_remove(s, old) ==
    IF Len(s) < Len(old) THEN s
    ELSE IF SubSeq(s, 1, Len(old)) = old
         THEN str_remove(SubSeq(s, Len(old) + 1, Len(s)), old)
         ELSE <<s[1]>> \o str_remove(Tail(s), old)

\* ' '.join(s.split()): whitespace runs become one space, none at the ends
RECURSIVE str_split_join(_)
str_split_join(s) ==
    IF s = <<>> THEN <<>>
    ELSE IF IsSpace(s[1]) THEN str_split_join(Tail(s))
    ELSE IF Len(s) = 1 THEN s
    ELSE IF IsSpace(s[2])
         THEN LET rest == str_split_join(Tail(s))
              IN  IF rest = <<>> THEN <<s[1]>> ELSE <<s[1], " ">> \o rest
         ELSE <<s[1]>> \o str_split_join(Tail(s))

--------------------------------------------------------------------------
(* COLUMN_MAPPING: the accepted spellings of each FieldKey, in priority
   order.  KEYS is the order in which the dict is iterated. *)

KEYS ==
    << "project_number", "project_name", "project_category", "project_status",
       "gm", "director", "operational_lead", "contract_end_date",
       "days_remaining", "budget_spent", "budget_remaining", "timeline_actual",
       "timeline_planned", "kpi", "service_performance", "project_health",
       "issues", "risks", "current_activities", "future_activities",
       "comments", "vendor" >>

COLUMN_MAPPING ==
       "project_number" :> <<
        <<"#">>,  \* '#'
        <<"N","o">>,  \* 'No'
        <<"N","u","m","b","e","r">>,  \* 'Number'
        <<"P","r","o","j","e","c","t"," ","#">>,  \* 'Project #'
        <<"I","D">> >>  \* 'ID'
    @@ "project_name" :> <<
        <<"P","r","o","j","e","c","t"," ","N","a","m","e">>,  \* 'Project Name'
        <<"N","a","m","e">>,  \* 'Name'
        <<"P","r","o","j","e","c","t"," ","T","i","t","l","e">> >>  \* 'Project Title'
    @@ "project_category" :> <<
        <<"P","r","o","j","e","c","t"," ","C","a","t","e","g","o","r","y">>,  \* 'Project Category'
        <<"C","a","t","e","g","o","r","y">>,  \* 'Category'
        <<"T","y","p","e">> >>  \* 'Type'
    @@ "project_status" :> <<
        <<"P","r","o","j","e","c","t"," ","S","t","a","t","u","s">>,  \* 'Project Status'
        <<"S","t","a","t","u","s">> >>  \* 'Status'
    @@ "gm" :> <<
        <<"G","M">>,  \* 'GM'
        <<"G","e","n","e","r","a","l"," ","M","a","n","a","g","e","r">>,  \* 'General Manager'
        <<"S","p","o","n","s","o","r"," ","G","M">> >>  \* 'Sponsor GM'
    @@ "director" :> <<
        <<"S","P","L","D"," ","D","i","r","e","c","t","o","r"," ","/"," ","G","M">>,  \* 'SPLD Director / GM'
        <<"D","i","r","e","c","t","o","r">>,  \* 'Director'
        <<"S","P","L","D"," ","D","i","r","e","c","t","o","r">>,  \* 'SPLD Director'
        <<"P","r","o","j","e","c","t"," ","D","i","r","e","c","t","o","r">> >>  \* 'Project Director'
    @@ "operational_lead" :> <<
        <<"P","r","o","j","e","c","t"," ","o","p","e","r","a","t","i","o","n","a","l"," ","L","e","a","d">>,  \* 'Project operational Lead'
        <<"O","p","e","r","a","t","i","o","n","a","l"," ","L","e","a","d">>,  \* 'Operational Lead'
        <<"L","e","a","d">>,  \* 'Lead'
        <<"P","r","o","j","e","c","t"," ","L","e","a","d">>,  \* 'Project Lead'
        <<"P","r","o","j","e","c","t"," ","M","a","n","a","g","e","r">> >>  \* 'Project Manager'
    @@ "contract_end_date" :> <<
        <<"C","o","n","t","r","a","c","t"," ","E","n","d"," ","D","a","t","e">>,  \* 'Contract End Date'
        <<"E","n","d"," ","D","a","t","e">>,  \* 'End Date'
        <<"F","i","n","i","s","h"," ","D","a","t","e">>,  \* 'Finish Date'
        <<"D","e","a","d","l","i","n","e">> >>  \* 'Deadline'
    @@ "days_remaining" :> <<
        <<"D","a","y","s"," ","R","e","m","a","i","n","i","n","g"," ","(","U","n","t","i","l"," ","C","o","n","t","r","a","c","t"," ","E","n","d",")">>,  \* 'Days Remaining (Until Contract End)'
        <<"D","a","y","s"," ","R","e","m","a","i","n","i","n","g">>,  \* 'Days Remaining'
        <<"D","a","y","s"," ","L","e","f","t">> >>  \* 'Days Left'
    @@ "budget_spent" :> <<
        <<"B","u","d","g","e","t"," ","(","S","p","e","n","t",")">>,  \* 'Budget (Spent)'
        <<"B","u","d","g","e","t"," ","S","p","e","n","t">>,  \* 'Budget Spent'
        <<"S","p","e","n","t">>,  \* 'Spent'
        <<"A","c","t","u","a","l"," ","C","o","s","t">> >>  \* 'Actual Cost'
    @@ "budget_remaining" :> <<
        <<"B","u","d","g","e","t"," ","R","e","m","a","i","n","i","n","g">>,  \* 'Budget Remaining'
        <<"R","e","m","a","i","n","i","n","g"," ","B","u","d","g","e","t">>,  \* 'Remaining Budget'
        <<"B","u","d","g","e","t"," ","L","e","f","t">> >>  \* 'Budget Left'
    @@ "timeline_actual" :> <<
        <<"t","i","m","e","l","i","n","e"," ","A","c","t","u","a","l">>,  \* 'timeline Actual'
        <<"A","c","t","u","a","l"," ","P","r","o","g","r","e","s","s">>,  \* 'Actual Progress'
        <<"A","c","t","u","a","l"," ","%">>,  \* 'Actual %'
        <<"P","r","o","g","r","e","s","s"," ","A","c","t","u","a","l">> >>  \* 'Progress Actual'
    @@ "timeline_planned" :> <<
        <<"t","i","m","e","l","i","n","e"," ","p","l","a","n","n","e","d">>,  \* 'timeline planned'
        <<"P","l","a","n","n","e","d"," ","P","r","o","g","r","e","s","s">>,  \* 'Planned Progress'
        <<"P","l","a","n","n","e","d"," ","%">>,  \* 'Planned %'
        <<"P","r","o","g","r","e","s","s"," ","P","l","a","n","n","e","d">> >>  \* 'Progress Planned'
    @@ "kpi" :> <<
        <<"S","e","r","v","i","c","e"," ","d","e","l","i","v","e","r","y"," ","P","e","r","f","o","r","m","a","n","c","e"," ","K","P","I">>,  \* 'Service delivery Performance KPI'
        <<"K","P","I">>,  \* 'KPI'
        <<"P","e","r","f","o","r","m","a","n","c","e"," ","K","P","I">> >>  \* 'Performance KPI'
    @@ "service_performance" :> <<
        <<"S","e","r","v","i","c","e"," ","d","e","l","i","v","e","r","y"," ","P","e","r","f","o","r","m","a","n","c","e">>,  \* 'Service delivery Performance'
        <<"P","e","r","f","o","r","m","a","n","c","e">>,  \* 'Performance'
        <<"S","e","r","v","i","c","e"," ","P","e","r","f","o","r","m","a","n","c","e">> >>  \* 'Service Performance'
    @@ "project_health" :> <<
        <<"P","r","o","j","e","c","t"," ","h","e","a","l","t","h"," ","(","o","n"," ","t","r","a","c","k"," ","-"," ","a","t"," ","r","i","s","k"," ","-"," ","o","f","f"," ","t","r","a","c","k",")">>,  \* 'Project health (on track - at risk - off track)'
        <<"P","r","o","j","e","c","t"," ","H","e","a","l","t","h">>,  \* 'Project Health'
        <<"H","e","a","l","t","h">>,  \* 'Health'
        <<"S","t","a","t","u","s"," ","H","e","a","l","t","h">> >>  \* 'Status Health'
    @@ "issues" :> <<
        <<"I","s","s","u","e","s"," ","(","F","r","o","m"," ","O","w","n","e","r"," ","L","i","s","t",")">>,  \* 'Issues (From Owner List)'
        <<"I","s","s","u","e","s">>,  \* 'Issues'
        <<"C","u","r","r","e","n","t"," ","I","s","s","u","e","s">> >>  \* 'Current Issues'
    @@ "risks" :> <<
        <<"R","i","s","k","s">>,  \* 'Risks'
        <<"R","i","s","k">>,  \* 'Risk'
        <<"P","r","o","j","e","c","t"," ","R","i","s","k","s">> >>  \* 'Project Risks'
    @@ "current_activities" :> <<
        <<"C","u","r","r","e","n","t"," ","a","c","t","i","v","i","t","e","s">>,  \* 'Current activites'
        <<"C","u","r","r","e","n","t"," ","A","c","t","i","v","i","t","i","e","s">>,  \* 'Current Activities'
        <<"C","u","r","r","e","n","t"," ","W","o","r","k">> >>  \* 'Current Work'
    @@ "future_activities" :> <<
        <<"F","u","t","u","r","e"," ","A","c","t","i","v","i","t","e","s">>,  \* 'Future Activites'
        <<"F","u","t","u","r","e"," ","A","c","t","i","v","i","t","i","e","s">>,  \* 'Future Activities'
        <<"N","e","x","t"," ","S","t","e","p","s">>,  \* 'Next Steps'
        <<"U","p","c","o","m","i","n","g"," ","A","c","t","i","v","i","t","i","e","s">> >>  \* 'Upcoming Activities'
    @@ "comments" :> <<
        <<"C","o","m","m","e","n","t","s"," "," ","t","o"," ","t","h","e"," ","o","w","n","e","r">>,  \* 'Comments  to the owner'
        <<"C","o","m","m","e","n","t","s">>,  \* 'Comments'
        <<"N","o","t","e","s">>,  \* 'Notes'
        <<"O","w","n","e","r"," ","C","o","m","m","e","n","t","s">> >>  \* 'Owner Comments'
    @@ "vendor" :> <<
        <<"V","e","n","d","o","r">>,  \* 'Vendor'
        <<"S","u","p","p","l","i","e","r">>,  \* 'Supplier'
        <<"C","o","n","t","r","a","c","t","o","r">> >>  \* 'Contractor'

--------------------------------------------------------------------------
(* Column resolver *)

\* s.lower().strip()
Folded(s) == str_strip(str_lower(s))

\* name.lower().strip() of every candidate name of every key
FOLDED_NAMES ==
    [k \in DOMAIN COLUMN_MAPPING |->
        [i \in 1..Len(COLUMN_MAPPING[k]) |-> Folded(COLUMN_MAPPING[k][i])]]

\* col.lower().strip() of every header that is a str
FoldedColumns(columns) ==
    [j \in 1..Len(columns) |->
        IF columns[j].t = "str" THEN Folded(columns[j].s) ELSE <<>>]

\* As ScanColumns, with col.lower() in place of col.lower().strip()
RECURSIVE ScanColumns_NoStrip(_, _, _, _)
ScanColumns_NoStrip(columns, folded, name, j) ==
    IF j > Len(columns) THEN None
    ELSE IF columns[j].t # "str" THEN Exc("AttributeError")
    ELSE IF str_lower(columns[j].s) = name THEN columns[j]
    ELSE ScanColumns_NoStrip(columns, folded, name, j + 1)

\* As ScanColumns, a header matching when the name is part of it
RECURSIVE ScanColumns_Substring(_, _, _, _)
ScanColumns_Substring(columns, folded, name, j) ==
    IF j > Len(columns) THEN None
    ELSE IF columns[j].t # "str" THEN Exc("AttributeError")
    ELSE IF str_contains(folded[j], name) THEN columns[j]
    ELSE ScanColumns_Substring(columns, folded, name, j + 1)

\* The inner loop of find_column over df.columns from column j on, testing
\* col.lower().strip() == name.lower().strip(): a header that is not a str
\* has no lower().
RECURSIVE ScanColumns(_, _, _, _)
ScanColumns(columns, folded, name, j) ==
    IF j > Len(columns) THEN None
    ELSE IF columns[j].t # "str" THEN Exc("AttributeError")
    ELSE IF folded[j] = name THEN columns[j]
    ELSE ScanColumns(columns, folded, name, j + 1)

\* The outer loop of find_column over possible_names from name i on.
RECURSIVE ScanNames(_, _, _, _)
ScanNames(columns, folded, column_key, i) ==
    IF i > Len(COLUMN_MAPPING[column_key]) THEN None
    ELSE IF \E j \in 1..Len(columns) : columns[j] = StrV(COLUMN_MAPPING[column_key][i])
         THEN StrV(COLUMN_MAPPING[column_key][i])
         ELSE LET col == ScanColumns(columns, folded, FOLDED_NAMES[column_key][i], 1)
              IN  IF col = None THEN ScanNames(columns, folded, column_key, i + 1)
                  ELSE col

find_column(columns, column_key) ==
    IF column_key \in DOMAIN COLUMN_MAPPING
    THEN Only({ScanNames(columns, folded, column_key, 1) :
                   folded \in {FoldedColumns(columns)}})
    ELSE None

\* What map_columns returns when find_column gave found[key] for each key:
\* [column_map, missing], or the exception of the first key that raised.
MapResult(found) ==
    IF \E k \in DOMAIN found : IsExc(found[k])
    THEN found[KEYS[SetMin({i \in 1..Len(KEYS) : IsExc(found[KEYS[i]])})]]
    ELSE [t |-> "ok",
          column_map |-> [k \in {q \in DOMAIN found : found[q] # None} |-> found[k]],
          missing |-> SelectSeq(KEYS, LAMBDA k : found[k] = None)]

map_columns(columns) ==
    Only({MapResult(found) :
              found \in {[k \in DOMAIN COLUMN_MAPPING |-> find_column(columns, k)]}})

--------------------------------------------------------------------------
(* Row access *)

\* pd.isna(value) of a scalar
pd_isna(value) == value.t \in {"nan", "none"}

\* As RowAt, always the first row
RowAt_First(frame, i) == [index |-> frame.columns, vals |-> frame.rows[1]]

\* A row of df.iterrows(): a Series, [index |-> the headers, vals |-> the cells]
RowAt(frame, i) == [index |-> frame.columns, vals |-> frame.rows[i]]

\* As safe_get, the empty cell itself where the key has no column
safe_get_NoDefault(row, cmap, key, default) ==
    LET col_name == IF key \in DOMAIN cmap THEN cmap[key] ELSE None
    IN  IF col_name # None /\ \E j \in 1..Len(row.index) : row.index[j] = col_name
        THEN LET val == row.vals[CHOOSE j \in 1..Len(row.index) : row.index[j] = col_name]
             IN  IF pd_isna(val) THEN default ELSE val
        ELSE NaN

safe_get(row, cmap, key, default) ==
    LET col_name == IF key \in DOMAIN cmap THEN cmap[key] ELSE None
    IN  IF col_name # None /\ \E j \in 1..Len(row.index) : row.index[j] = col_name
        THEN LET val == row.vals[CHOOSE j \in 1..Len(row.index) : row.index[j] = col_name]
             IN  IF pd_isna(val) THEN default ELSE val
        ELSE default

--------------------------------------------------------------------------
(* Field parsers *)

\* A Python float: a finite number, in hundredths, or inf, -inf, nan
Fin(n) == [f |-> "fin", n |-> n]
F_INF == [f |-> "inf"]
F_NINF == [f |-> "-inf"]
F_NAN == [f |-> "nan"]

IsFin(x) == x.f = "fin"

\* -x
FNeg(x) ==
    IF IsFin(x) THEN Fin(0 - x.n)
    ELSE IF x = F_INF THEN F_NINF
    ELSE IF x = F_NINF THEN F_INF
    ELSE F_NAN

\* x + y
FAdd(x, y) ==
    IF IsFin(x) /\ IsFin(y) THEN Fin(x.n + y.n)
    ELSE IF x = F_NAN \/ y = F_NAN THEN F_NAN
    ELSE IF IsFin(x) THEN y
    ELSE IF IsFin(y) \/ x = y THEN x
    ELSE F_NAN

\* x - y
FSub(x, y) == FAdd(x, FNeg(y))

\* x > 0
FPositive(x) == x = F_INF \/ (IsFin(x) /\ x.n > 0)

\* x <= 1
FAtMostOne(x) == x = F_NINF \/ (IsFin(x) /\ x.n <= 100)

\* x * 100
FTimes100(x) == IF IsFin(x) THEN Fin(100 * x.n) ELSE x

IsDigit(c) == \E i \in 1..Len(Digits) : Digits[i] = c
DigitVal(c) == (CHOOSE i \in 1..Len(Digits) : Digits[i] = c) - 1

RECURSIVE NatOf(_)
NatOf(s) ==
    IF s = <<>> THEN 0
    ELSE 10 * NatOf(SubSeq(s, 1, Len(s) - 1)) + DigitVal(s[Len(s)])

\* float(s): [ok, v].  ok = FALSE is ValueError.  The notations are
\* [sign] digits [. digits] with at most two decimals, and [sign] 'inf',
\* 'infinity' and 'nan' in any case.
PyFloat(s) ==
    LET u == str_strip(s)
        signed == u # <<>> /\ u[1] \in {"-", "+"}
        minus == signed /\ u[1] = "-"
        body == IF signed THEN Tail(u) ELSE u
        word == str_lower(body)
        dots == {i \in 1..Len(body) : body[i] = "."}
        ip == IF dots = {} THEN body ELSE SubSeq(body, 1, SetMin(dots) - 1)
        fp == IF dots = {} THEN <<>> ELSE SubSeq(body, SetMin(dots) + 1, Len(body))
        ok == /\ Cardinality(dots) <= 1
              /\ Len(ip) + Len(fp) >= 1
              /\ Len(fp) <= 2
              /\ \A i \in 1..Len(ip) : IsDigit(ip[i])
              /\ \A i \in 1..Len(fp) : IsDigit(fp[i])
        mag == 100 * NatOf(ip) + (IF Len(fp) = 1 THEN 10 * NatOf(fp) ELSE NatOf(fp))
    IN  IF word \in {<<"i","n","f">>, <<"i","n","f","i","n","i","t","y">>}
        THEN [ok |-> TRUE, v |-> IF minus THEN F_NINF ELSE F_INF]
        ELSE IF word = <<"n","a","n">> THEN [ok |-> TRUE, v |-> F_NAN]
        ELSE IF ok THEN [ok |-> TRUE, v |-> IF minus THEN Fin(0 - mag) ELSE Fin(mag)]
        ELSE [ok |-> FALSE, v |-> F_NAN]

\* str(value) can be read as a number only for a str: the text of a
\* datetime ('2030-12-31 00:00:00') has '-' and ':' inside.
PyStr(value) == IF value.t = "str" THEN value.s ELSE <<"?">>

parse_number(value, default) ==
    IF pd_isna(value) \/ value = StrV(<<>>) THEN default
    ELSE IF value.t = "num" THEN Fin(value.v)
    ELSE LET cleaned == str_strip(str_remove(str_remove(str_remove(
                            PyStr(value), <<",">>), <<"S","A","R">>), <<"$">>))
             f == PyFloat(cleaned)
         IN  IF f.ok THEN f.v ELSE default

\* if val <= 1: return val * 100; return val
AsPercentage(val) == IF FAtMostOne(val) THEN FTimes100(val) ELSE val

parse_percentage(value, default) ==
    IF pd_isna(value) \/ value = StrV(<<>>) THEN default
    ELSE IF value.t = "num" THEN AsPercentage(Fin(value.v))
    ELSE LET cleaned == str_strip(str_remove(PyStr(value), <<"%">>))
             f == PyFloat(cleaned)
         IN  IF f.ok THEN AsPercentage(f.v) ELSE default

\* The date texts of the model and what pd.to_datetime makes of each.
DATE_TEXT_NAIVE == <<"2","0","3","0","-","1","2","-","3","1">>

DATE_TEXT_AWARE ==
    <<"2","0","3","0","-","1","2","-","3","1","T","0","0",":","0","0","+","0","3",":","0","0">>

DATE_TEXTS ==
    { [s |-> DATE_TEXT_NAIVE, d |-> DateV(44558, FALSE)],
      [s |-> DATE_TEXT_AWARE, d |-> DateV(44558, TRUE)] }

\* pd.to_datetime(value).to_pydatetime(): a number is nanoseconds since the
\* epoch, a text is parsed or refused.
to_datetime(value) ==
    IF value.t = "num" THEN DateV(0, FALSE)
    ELSE IF value.t = "str" /\ \E e \in DATE_TEXTS : e.s = value.s
         THEN (CHOOSE e \in DATE_TEXTS : e.s = value.s).d
    ELSE Exc("ValueError")

parse_date(value) ==
    IF pd_isna(value) \/ value = StrV(<<>>) THEN None
    ELSE IF value.t = "date" THEN value
    ELSE LET d == to_datetime(value)
         IN  IF IsExc(d) THEN None ELSE d

\* end_date.strftime('%d %b %Y'): the text of the calendar day
strftime(d) == [t |-> "daytext", day |-> d.ticks \div 2]

--------------------------------------------------------------------------
(* Metric calculator *)

\* As calculate_days_remaining, without the max
calculate_days_remaining_NoMax(end_date, today) ==
    IF end_date = None THEN IntV(0)
    ELSE IF end_date.tz THEN Exc("TypeError")
    ELSE IntV((end_date.ticks - today) \div 2)

\* delta.days of end_date - today; a timezone-aware end_date cannot be
\* subtracted from the naive datetime.now().
calculate_days_remaining(end_date, today) ==
    IF end_date = None THEN IntV(0)
    ELSE IF end_date.tz THEN Exc("TypeError")
    ELSE LET days == (end_date.ticks - today) \div 2
         IN  IntV(IF days > 0 THEN days ELSE 0)

\* The integers nearest to n/d (d # 0): both neighbours on a tie.
RoundDiv(n, d) ==
    LET nn == IF d < 0 THEN 0 - n ELSE n
        dd == IF d < 0 THEN 0 - d ELSE d
        q == nn \div dd
        r == nn % dd
    IN  IF 2 * r < dd THEN {q}
        ELSE IF 2 * r > dd THEN {q + 1}
        ELSE {q, q + 1}

\* round(x, 1)
round1(x) == IF IsFin(x) THEN {Fin(10 * q) : q \in RoundDiv(x.n, 10)} ELSE {x}

\* round((part / total) * 100, 1), total # 0
PctOf(part, total) ==
    IF IsFin(total)
    THEN {Fin(10 * q) : q \in RoundDiv(1000 * part.n, total.n)}
    ELSE IF total # F_NAN /\ IsFin(part) THEN {Fin(0)}
    ELSE {F_NAN}

calculate_budget_utilization(spent, remaining) ==
    LET total == FAdd(spent, remaining)
    IN  IF total = Fin(0) THEN {<<Fin(0), Fin(0)>>}
        ELSE {<<s, r>> : s \in PctOf(spent, total), r \in PctOf(remaining, total)}

\* As determine_health_color, the phrases of red tested before the others
determine_health_color_RedFirst(health_status) ==
    IF pd_isna(health_status) \/ health_status = StrV(<<>>) THEN "gray"
    ELSE LET status == str_strip(str_lower(PyStr(health_status)))
         IN  IF str_contains(status, <<"o","f","f"," ","t","r","a","c","k">>)
                \/ str_contains(status, <<"d","e","l","a","y","e","d">>)
                \/ str_contains(status, <<"o","f","f","-","t","r","a","c","k">>)
             THEN "red"
             ELSE IF str_contains(status, <<"o","n"," ","t","r","a","c","k">>)
                     \/ str_contains(status, <<"o","n","-","t","r","a","c","k">>)
             THEN "green"
             ELSE IF str_contains(status, <<"a","t"," ","r","i","s","k">>)
                     \/ str_contains(status, <<"a","t","-","r","i","s","k">>)
             THEN "orange"
             ELSE "gray"

determine_health_color(health_status) ==
    IF pd_isna(health_status) \/ health_status = StrV(<<>>) THEN "gray"
    ELSE LET status == str_strip(str_lower(PyStr(health_status)))
         IN  IF str_contains(status, <<"o","n"," ","t","r","a","c","k">>)
                \/ str_contains(status, <<"o","n","-","t","r","a","c","k">>)
             THEN "green"
             ELSE IF str_contains(status, <<"a","t"," ","r","i","s","k">>)
                     \/ str_contains(status, <<"a","t","-","r","i","s","k">>)
             THEN "orange"
             ELSE IF str_contains(status, <<"o","f","f"," ","t","r","a","c","k">>)
                     \/ str_contains(status, <<"d","e","l","a","y","e","d">>)
                     \/ str_contains(status, <<"o","f","f","-","t","r","a","c","k">>)
             THEN "red"
             ELSE "gray"

TO_BE_PROVIDED == StrV(<<"[","T","o"," ","b","e"," ","p","r","o","v","i","d","e","d","]">>)

\* As clean_text, answering the placeholder once a record has been built
clean_text_Counting(text, max_length) ==
    IF Len(projects) > 0 \/ pd_isna(text) \/ text = StrV(<<>>) THEN TO_BE_PROVIDED
    ELSE LET s == str_split_join(str_strip(PyStr(text)))
         IN  IF Len(s) > max_length
             THEN StrV(SubSeq(s, 1, max_length) \o <<".", ".", ".">>)
             ELSE StrV(s)

clean_text(text, max_length) ==
    IF pd_isna(text) \/ text = StrV(<<>>) THEN TO_BE_PROVIDED
    ELSE LET s == str_split_join(str_strip(PyStr(text)))
         IN  IF Len(s) > max_length
             THEN StrV(SubSeq(s, 1, max_length) \o <<".", ".", ".">>)
             ELSE StrV(s)

--------------------------------------------------------------------------
(* Record extractor *)

EMPTY == StrV(<<>>)
UNNAMED_PROJECT ==
    StrV(<<"U","n","n","a","m","e","d"," ","P","r","o","j","e","c","t">>)
TBD == StrV(<<"T","B","D">>)
TBD_DATE == StrV(<<"[","T","B","D","]">>)

\* As DaysRemaining, the stated count whenever it is positive
DaysRemaining_StatedFirst(days, excel_days) ==
    IF FPositive(excel_days)
    THEN IF IsFin(excel_days) THEN IntV(excel_days.n \div 100) ELSE Exc("OverflowError")
    ELSE IntV(days)

\* if project['days_remaining'] == 0 and excel_days > 0:
\*     project['days_remaining'] = int(excel_days)
DaysRemaining(days, excel_days) ==
    IF days = 0 /\ FPositive(excel_days)
    THEN IF IsFin(excel_days) THEN IntV(excel_days.n \div 100) ELSE Exc("OverflowError")
    ELSE IntV(days)

\* As BudgetTotal, the spent amount alone
BudgetTotal_SpentOnly(budget_spent, budget_remaining) == budget_spent

\* project['budget_total'] = budget_spent + budget_remaining
BudgetTotal(budget_spent, budget_remaining) == FAdd(budget_spent, budget_remaining)

\* The records extract_project_data(row, column_map) can return when the
\* clock reads `today` (one, unless a rounding is a tie), or the exception
\* it raises.
extract_project_data(row, cmap, today) ==
    LET end_date == parse_date(safe_get(row, cmap, "contract_end_date", EMPTY))
        days == calculate_days_remaining(end_date, today)
        excel_days == parse_number(safe_get(row, cmap, "days_remaining", EMPTY), Fin(0))
        fallback == IF IsExc(days) THEN days ELSE DaysRemaining(days.v, excel_days)
        budget_spent == parse_number(safe_get(row, cmap, "budget_spent", EMPTY), Fin(0))
        budget_remaining == parse_number(safe_get(row, cmap, "budget_remaining", EMPTY), Fin(0))
        actual_progress == parse_percentage(safe_get(row, cmap, "timeline_actual", EMPTY), Fin(0))
        planned_progress == parse_percentage(safe_get(row, cmap, "timeline_planned", EMPTY), Fin(0))
        health == safe_get(row, cmap, "project_health", EMPTY)
    IN  IF IsExc(fallback) THEN {fallback}
        ELSE
        { [ number |-> safe_get(row, cmap, "project_number", EMPTY),
            name |-> safe_get(row, cmap, "project_name", UNNAMED_PROJECT),
            category |-> safe_get(row, cmap, "project_category", EMPTY),
            status |-> safe_get(row, cmap, "project_status", EMPTY),
            gm |-> safe_get(row, cmap, "gm", EMPTY),
            director |-> safe_get(row, cmap, "director", EMPTY),
            operational_lead |-> safe_get(row, cmap, "operational_lead", EMPTY),
            vendor |-> safe_get(row, cmap, "vendor", EMPTY),
            contract_end_date |-> IF end_date # None THEN strftime(end_date) ELSE TBD_DATE,
            days_remaining |-> fallback.v,
            budget_spent |-> budget_spent,
            budget_remaining |-> budget_remaining,
            budget_total |-> BudgetTotal(budget_spent, budget_remaining),
            budget_spent_pct |-> pct[1],
            budget_remaining_pct |-> pct[2],
            timeline_actual |-> actual,
            timeline_planned |-> planned,
            schedule_variance |-> variance,
            kpi |-> clean_text(safe_get(row, cmap, "kpi", EMPTY), 200),
            service_performance |-> safe_get(row, cmap, "service_performance", TBD),
            health |-> health,
            health_color |-> determine_health_color(health),
            issues |-> clean_text(safe_get(row, cmap, "issues", EMPTY), 500),
            risks |-> clean_text(safe_get(row, cmap, "risks", EMPTY), 500),
            current_activities |-> clean_text(safe_get(row, cmap, "current_activities", EMPTY), 500),
            future_activities |-> clean_text(safe_get(row, cmap, "future_activities", EMPTY), 500),
            comments |-> clean_text(safe_get(row, cmap, "comments", EMPTY), 500) ] :
          pct \in calculate_budget_utilization(budget_spent, budget_remaining),
          actual \in round1(actual_progress),
          planned \in round1(planned_progress),
          variance \in round1(FSub(actual_progress, planned_progress)) }

--------------------------------------------------------------------------
(* File ingestion: process_excel_file, one action per step of its body.
   Everything runs inside try/except Exception, so an exception raised at
   any step ends the call with the 'Error processing file' result. *)

Message(text) == [t |-> "str", text |-> text]

MISSING_CRITICAL == Message("Missing critical columns: project_name")
NO_VALID_PROJECTS == Message("No valid projects found in the Excel file")
ErrorProcessing(e) == Message("Error processing file: " \o e.e)

\* A Python list
ListV(items) == [t |-> "list", items |-> items]

\* The tuple process_excel_file returns
Result(records, error) == [projects |-> records, error |-> error]
NotReturned == [t |-> "running"]

\* As IsBlankName, without strip()
IsBlankName_NoStrip(name) == pd_isna(name) \/ PyStr(name) = <<>>

\* The name test of the row loop: pd.isna(name) or str(name).strip() == ''
IsBlankName(name) == pd_isna(name) \/ str_strip(PyStr(name)) = <<>>

\* As ReturnValue, without the test for an empty list
ReturnValue_NoEmptyTest(collected) == Result(ListV(collected), None)

\* What the function returns after the row loop.
ReturnValue(collected) ==
    IF collected = <<>> THEN Result(None, NO_VALID_PROJECTS)
    ELSE Result(ListV(collected), None)

\* df = pd.read_excel(io.BytesIO(file_content), sheet_name=0)
ReadExcel ==
    /\ pc = "read"
    /\ IF file.readable
       THEN /\ df' = [columns |-> file.columns, rows |-> file.rows]
            /\ pc' = "map"
            /\ ret' = ret
       ELSE /\ df' = df
            /\ pc' = "done"
            /\ ret' = Result(None, ErrorProcessing(Exc("BadZipFile")))
    /\ UNCHANGED <<file, now, column_map, missing_cols, idx, projects, extracted>>
    /\ UNCHANGED <<llm_formatter, app_i, call, fs, sent>>

\* column_map, missing_cols = map_columns(df)
MapColumns ==
    /\ pc = "map"
    /\ \E m \in {map_columns(df.columns)} :
           IF IsExc(m)
           THEN /\ pc' = "done"
                /\ ret' = Result(None, ErrorProcessing(m))
                /\ UNCHANGED <<column_map, missing_cols>>
           ELSE /\ pc' = "check"
                /\ column_map' = m.column_map
                /\ missing_cols' = m.missing
                /\ ret' = ret
    /\ UNCHANGED <<file, now, df, idx, projects, extracted>>
    /\ UNCHANGED <<llm_formatter, app_i, call, fs, sent>>

\* As CriticalMissing, with no column held critical
CriticalMissing_Nothing(missing) == <<>>

\* critical_missing = [col for col in critical_cols if col in missing_cols]
CriticalMissing(missing) ==
    SelectSeq(<<"project_name">>,
              LAMBDA col : \E i \in 1..Len(missing) : missing[i] = col)

\* Return the error for critical_missing, or start the row loop with no projects
CheckCritical ==
    /\ pc = "check"
    /\ LET critical_missing == CriticalMissing(missing_cols)
       IN  IF critical_missing # <<>>
           THEN /\ pc' = "done"
                /\ ret' = Result(None, MISSING_CRITICAL)
                /\ UNCHANGED <<idx, projects>>
           ELSE /\ pc' = "rows"
                /\ idx' = 1
                /\ projects' = <<>>
                /\ ret' = ret
    /\ UNCHANGED <<file, now, df, column_map, missing_cols, extracted>>
    /\ UNCHANGED <<llm_formatter, app_i, call, fs, sent>>

\* One iteration of `for idx, row in df.iterrows()`
NextRow ==
    /\ pc = "rows"
    /\ idx <= Len(df.rows)
    /\ LET row == RowAt(df, idx)
           name == safe_get(row, column_map, "project_name", EMPTY)
       IN  IF IsBlankName(name)
           THEN /\ idx' = idx + 1
                /\ UNCHANGED <<pc, projects, extracted, ret>>
           ELSE \E project \in extract_project_data(row, column_map, now) :
                    /\ extracted' = Append(extracted, idx)
                    /\ IF "t" \in DOMAIN project
                       THEN /\ pc' = "done"
                            /\ ret' = Result(None, ErrorProcessing(project))
                            /\ UNCHANGED <<idx, projects>>
                       ELSE /\ projects' = Append(projects, project)
                            /\ idx' = idx + 1
                            /\ UNCHANGED <<pc, ret>>
    /\ UNCHANGED <<file, now, df, column_map, missing_cols>>
    /\ UNCHANGED <<llm_formatter, app_i, call, fs, sent>>

\* After the loop: the 'no valid projects' error, or the records
Return ==
    /\ pc = "rows"
    /\ idx > Len(df.rows)
    /\ pc' = "done"
    /\ ret' = ReturnValue(projects)
    /\ UNCHANGED <<file, now, df, column_map, missing_cols, idx, projects, extracted>>
    /\ UNCHANGED <<llm_formatter, app_i, call, fs, sent>>

Next == ReadExcel \/ MapColumns \/ CheckCritical \/ NextRow \/ Return

--------------------------------------------------------------------------
(* The uploads of the model *)

MaxCols == 2
MaxRows == 2

\* The sequences over S of at most n elements
SeqsUpTo(S, n) == UNION {[1..k -> S] : k \in 0..n}

NoRepeat(s) == \A i, j \in 1..Len(s) : i # j => s[i] # s[j]

H_PROJECT_NAME == StrV(<<"P","r","o","j","e","c","t"," ","N","a","m","e">>)
H_PROJECT_NAME_PADDED == StrV(<<" ","p","r","o","j","e","c","t"," ","n","a","m","e"," ">>)
H_NAME_UPPER == StrV(<<"N","A","M","E">>)
H_CONTRACT_END_DATE == StrV(<<"C","o","n","t","r","a","c","t"," ","E","n","d"," ","D","a","t","e">>)
H_BUDGET_TOTAL == StrV(<<"B","u","d","g","e","t"," ","T","o","t","a","l">>)
H_YEAR == IntV(2024)

ALPHA == StrV(<<"A","l","p","h","a">>)
BETA == StrV(<<"B","e","t","a">>)
GAMMA == StrV(<<"G","a","m","m","a">>)
SPACES == StrV(<<" "," ">>)

\* The headers an upload's first row is drawn from: the first name candidate
\* as listed and in another case with blanks around it, the second name
\* candidate in capitals, a date column, a header the mapping does not know
\* and a header that is a number.
HEADERS ==
    { H_PROJECT_NAME, H_PROJECT_NAME_PADDED, H_NAME_UPPER,
      H_CONTRACT_END_DATE, H_BUDGET_TOTAL, H_YEAR }

PRIMARY_NAME_HEADERS == {H_PROJECT_NAME, H_PROJECT_NAME_PADDED}
NAME_HEADERS == PRIMARY_NAME_HEADERS \cup {H_NAME_UPPER}

ROW_KINDS == {"spaces", "alpha", "beta", "gamma"}

\* The cell a row of each kind has under a header
CellOf(kind, header) ==
    CASE kind = "spaces" -> IF header \in NAME_HEADERS THEN SPACES ELSE NaN
      [] kind = "alpha" ->
            IF header \in NAME_HEADERS THEN ALPHA
            ELSE IF header = H_CONTRACT_END_DATE THEN DateV(44558, FALSE)
            ELSE NumV(99900)
      [] kind = "beta" ->
            IF header \in PRIMARY_NAME_HEADERS THEN NaN
            ELSE IF header \in NAME_HEADERS THEN BETA
            ELSE IF header = H_CONTRACT_END_DATE THEN StrV(DATE_TEXT_AWARE)
            ELSE NaN
      [] kind = "gamma" ->
            IF header \in NAME_HEADERS THEN GAMMA
            ELSE IF header = H_CONTRACT_END_DATE THEN StrV(DATE_TEXT_AWARE)
            ELSE NumV(0)

ColumnLists == {c \in SeqsUpTo(HEADERS, MaxCols) : NoRepeat(c)}

RowsOf(columns, kinds) ==
    [i \in 1..Len(kinds) |-> [j \in 1..Len(columns) |-> CellOf(kinds[i], columns[j])]]

UNREADABLE == [readable |-> FALSE, columns |-> <<>>, rows |-> <<>>]

Workbook(columns, rows) == [readable |-> TRUE, columns |-> columns, rows |-> rows]

FILES ==
    {UNREADABLE} \cup
    {Workbook(c, RowsOf(c, k)) : c \in ColumnLists, k \in SeqsUpTo(ROW_KINDS, MaxRows)}

\* 2026-11-02 12:00
CLOCK == {41519}

\* The state at the call of process_excel_file(file_content, filename)
Start(uploads) ==
    /\ file \in uploads
    /\ now \in CLOCK
    /\ pc = "read"
    /\ df = [columns |-> <<>>, rows |-> <<>>]
    /\ column_map = <<>>
    /\ missing_cols = <<>>
    /\ idx = 0
    /\ projects = <<>>
    /\ extracted = <<>>
    /\ ret = NotReturned
    /\ llm_formatter = None
    /\ app_i = 0
    /\ fs = <<>>
    /\ sent = <<>>
    /\ call = None

Init == Start(FILES)

Spec == Init /\ [][Next]_vars

--------------------------------------------------------------------------
(* The uploads of the budget check: one named row with every pair of
   amounts in the two budget columns, beside a 'Budget Total' column the
   mapping does not know *)

H_BUDGET_SPENT == StrV(<<"B","u","d","g","e","t"," ","(","S","p","e","n","t",")">>)
H_BUDGET_REMAINING == StrV(<<"B","u","d","g","e","t"," ","R","e","m","a","i","n","i","n","g">>)

TEXT_INF == StrV(<<"i","n","f">>)
TEXT_MINUS_INFINITY == StrV(<<"-","I","n","f","i","n","i","t","y">>)
TEXT_NAN == StrV(<<"N","A","N">>)

\* Empty, numbers (0, 1.00, -1.00, 3.00, 1999.00) and texts: '1,000.00SAR',
\* '500SAR', '$1,200', '-50.5', 'abc', 'inf', '-Infinity', 'NAN'
AMOUNT_CELLS ==
    { NaN, NumV(0), NumV(100), NumV(0 - 100), NumV(300), NumV(199900),
      StrV(<<"1",",","0","0","0",".","0","0","S","A","R">>),
      StrV(<<"5","0","0","S","A","R">>),
      StrV(<<"$","1",",","2","0","0">>),
      StrV(<<"-","5","0",".","5">>),
      StrV(<<"a","b","c">>), TEXT_INF, TEXT_MINUS_INFINITY, TEXT_NAN }

BUDGET_FILES ==
    {Workbook(<<H_PROJECT_NAME, H_BUDGET_SPENT, H_BUDGET_REMAINING, H_BUDGET_TOTAL>>,
              <<(<<ALPHA, s, r, t>>)>>) :
         s \in AMOUNT_CELLS, r \in AMOUNT_CELLS, t \in {NaN, NumV(77700)}}

InitBudget == Start(BUDGET_FILES)

SpecBudget == InitBudget /\ [][Next]_vars

--------------------------------------------------------------------------
(* The uploads of the parsing check: one named row with, under each parsed
   column, an empty cell, a value the parser reads and values it cannot
   read *)

H_DAYS_REMAINING == StrV(<<"D","a","y","s"," ","R","e","m","a","i","n","i","n","g">>)
H_TIMELINE_ACTUAL == StrV(<<"t","i","m","e","l","i","n","e"," ","A","c","t","u","a","l">>)
H_TIMELINE_PLANNED == StrV(<<"t","i","m","e","l","i","n","e"," ","p","l","a","n","n","e","d">>)

TEXT_TBC == StrV(<<"T","B","C">>)
TEXT_3_MONTHS == StrV(<<"3"," ","m","o","n","t","h","s">>)
TEXT_1_2M == StrV(<<"1",".","2","M">>)
TEXT_ABC == StrV(<<"a","b","c">>)
TEXT_ABOUT_50 == StrV(<<"a","b","o","u","t"," ","5","0">>)

\* 2030-12-31 00:00, not timezone-aware
END_OF_2030 == DateV(44558, FALSE)

PARSED_COLUMNS ==
    << H_PROJECT_NAME, H_CONTRACT_END_DATE, H_DAYS_REMAINING, H_BUDGET_SPENT,
       H_BUDGET_REMAINING, H_TIMELINE_ACTUAL, H_TIMELINE_PLANNED >>

PARSED_KEYS ==
    << "contract_end_date", "days_remaining", "budget_spent",
       "budget_remaining", "timeline_actual", "timeline_planned" >>

\* The cells under each parsed key: a date, a date text with a timezone and
\* 'TBC'; 30 days, '3 months', a date and 'inf'; 1000.00, '1.2M' and 'inf';
\* '500SAR' and 'abc'; '60%' and 'about 50'; 0.4 and 'TBC'
PARSED_CELLS ==
    [ contract_end_date |-> {NaN, END_OF_2030, StrV(DATE_TEXT_AWARE), TEXT_TBC},
      days_remaining |-> {NaN, NumV(3000), TEXT_3_MONTHS, END_OF_2030, TEXT_INF},
      budget_spent |-> {NaN, NumV(100000), TEXT_1_2M, TEXT_INF},
      budget_remaining |-> {StrV(<<"5","0","0","S","A","R">>), TEXT_ABC},
      timeline_actual |-> {NaN, StrV(<<"6","0","%">>), TEXT_ABOUT_50},
      timeline_planned |-> {NumV(40), TEXT_TBC} ]

\* Of these, the cells that are no date, no number and no percentage
UNPARSEABLE ==
    [ contract_end_date |-> {TEXT_TBC},
      days_remaining |-> {TEXT_3_MONTHS, END_OF_2030, TEXT_INF},
      budget_spent |-> {TEXT_1_2M, TEXT_INF},
      budget_remaining |-> {TEXT_ABC},
      timeline_actual |-> {TEXT_ABOUT_50},
      timeline_planned |-> {TEXT_TBC} ]

\* Of these, the cells float() and pd.to_datetime() refuse
REFUSED ==
    [ contract_end_date |-> {TEXT_TBC},
      days_remaining |-> {TEXT_3_MONTHS, END_OF_2030},
      budget_spent |-> {TEXT_1_2M},
      budget_remaining |-> {TEXT_ABC},
      timeline_actual |-> {TEXT_ABOUT_50},
      timeline_planned |-> {TEXT_TBC} ]

PARSED_FILES ==
    {Workbook(PARSED_COLUMNS, <<(<<ALPHA>> \o [n \in 1..Len(PARSED_KEYS) |-> c[PARSED_KEYS[n]]])>>) :
         c \in [contract_end_date : PARSED_CELLS.contract_end_date,
                days_remaining : PARSED_CELLS.days_remaining,
                budget_spent : PARSED_CELLS.budget_spent,
                budget_remaining : PARSED_CELLS.budget_remaining,
                timeline_actual : PARSED_CELLS.timeline_actual,
                timeline_planned : PARSED_CELLS.timeline_planned]}

InitParse == Start(PARSED_FILES)

SpecParse == InitParse /\ [][Next]_vars

--------------------------------------------------------------------------
(* The uploads of the defaults check: one named row under the first
   spelling of every FieldKey but a few, or of a few FieldKeys only *)

MaxMissing == 2

OPTIONAL_KEYS == {KEYS[i] : i \in 1..Len(KEYS)} \ {"project_name"}

\* The subsets of S of at most n elements
RECURSIVE SubsetsUpTo(_, _)
SubsetsUpTo(S, n) ==
    IF n = 0 THEN {{}}
    ELSE {T \cup {k} : T \in SubsetsUpTo(S, n - 1), k \in S} \cup {{}}

MISSING_SETS ==
    SubsetsUpTo(OPTIONAL_KEYS, MaxMissing)
        \cup {OPTIONAL_KEYS \ T : T \in SubsetsUpTo(OPTIONAL_KEYS, 1)}

HeaderOf(k) == StrV(COLUMN_MAPPING[k][1])

\* A cell each key reads: a date, 30 days, amounts, percentages, a health
\* status and a text; `end` is the cell of the end date.
GoodCell(k, end) ==
    CASE k = "project_name" -> ALPHA
      [] k = "contract_end_date" -> end
      [] k = "days_remaining" -> NumV(3000)
      [] k = "budget_spent" -> NumV(100000)
      [] k = "budget_remaining" -> StrV(<<"5","0","0","S","A","R">>)
      [] k = "timeline_actual" -> StrV(<<"6","0","%">>)
      [] k = "timeline_planned" -> NumV(40)
      [] k = "project_health" -> StrV(<<"O","n"," ","T","r","a","c","k">>)
      [] OTHER -> StrV(<<"L","a","t","e"," "," ","s","u","p","p","l","i","e","r">>)

SheetWithout(missing, end) ==
    LET keys == SelectSeq(KEYS, LAMBDA k : k \notin missing)
    IN  Workbook([n \in 1..Len(keys) |-> HeaderOf(keys[n])],
                 << [n \in 1..Len(keys) |-> GoodCell(keys[n], end)] >>)

DEFAULTS_FILES ==
    {SheetWithout(m, END_OF_2030) : m \in MISSING_SETS}
        \cup {SheetWithout(m, StrV(DATE_TEXT_AWARE)) : m \in SubsetsUpTo(OPTIONAL_KEYS, 1)}

InitDefaults == Start(DEFAULTS_FILES)

SpecDefaults == InitDefaults /\ [][Next]_vars

--------------------------------------------------------------------------
(* The uploads of the progress check: one named row with every pair of
   cells in the two progress columns *)

\* Empty; the numbers 0.4, 0.01, -0.5, 35, 35.26, 40, 40.23 and 150; the
\* texts '40%', '35.0', '0.5%', 'inf' and 'abc'
PROGRESS_CELLS ==
    { NaN, NumV(40), NumV(1), NumV(0 - 50), NumV(3500), NumV(3526), NumV(4000),
      NumV(4023), NumV(15000),
      StrV(<<"4","0","%">>), StrV(<<"3","5",".","0">>), StrV(<<"0",".","5","%">>),
      TEXT_INF, TEXT_ABC }

PROGRESS_FILES ==
    {Workbook(<<H_PROJECT_NAME, H_TIMELINE_ACTUAL, H_TIMELINE_PLANNED>>,
              <<(<<ALPHA, a, b>>)>>) :
         a \in PROGRESS_CELLS, b \in PROGRESS_CELLS}

InitProgress == Start(PROGRESS_FILES)

SpecProgress == InitProgress /\ [][Next]_vars

--------------------------------------------------------------------------
(* The uploads of the days check: one named row with every pair of an end
   date and a day count *)

\* No date; 2025-05-31, the midnight before the clock's noon, the midnight
\* after it and 2030-12-31; the texts '2030-12-31' and 'TBC'
END_DATE_CELLS ==
    { NaN, DateV(40478, FALSE), DateV(41518, FALSE), DateV(41520, FALSE),
      END_OF_2030, StrV(DATE_TEXT_NAIVE), TEXT_TBC }

\* No count; the numbers 0, 30, -5, 0.5 and 2.5; the texts '12', '3 months',
\* 'inf' and 'NAN'
DAY_COUNT_CELLS ==
    { NaN, NumV(0), NumV(3000), NumV(0 - 500), NumV(50), NumV(250),
      StrV(<<"1","2">>), TEXT_3_MONTHS, TEXT_INF, TEXT_NAN }

DAYS_FILES ==
    {Workbook(<<H_PROJECT_NAME, H_CONTRACT_END_DATE, H_DAYS_REMAINING>>,
              <<(<<ALPHA, d, n>>)>>) :
         d \in END_DATE_CELLS, n \in DAY_COUNT_CELLS}

InitDays == Start(DAYS_FILES)

SpecDays == InitDays /\ [][Next]_vars

--------------------------------------------------------------------------
(* parse_percentage applied to a value and then to its own result *)

MaxFraction == 200

\* The numbers -2.00 .. 2.00 by hundredths, 35, 40 and 150, no value, and
\* the texts '40%', '0.5%', '35.0' and 'abc'
PERCENTAGE_ARGS ==
    {NumV(n) : n \in (0 - MaxFraction)..MaxFraction}
        \cup { NumV(3500), NumV(4000), NumV(15000), NaN,
               StrV(<<"4","0","%">>), StrV(<<"0",".","5","%">>),
               StrV(<<"3","5",".","0">>), TEXT_ABC }

\* A float as the value of a cell: nan is the empty cell
FloatCell(x) == IF IsFin(x) THEN NumV(x.n) ELSE NaN

\* The state in which function fn is about to be applied to arg
StartCall(fn, args) ==
    /\ file = UNREADABLE
    /\ now \in CLOCK
    /\ pc = "call"
    /\ df = [columns |-> <<>>, rows |-> <<>>]
    /\ column_map = <<>>
    /\ missing_cols = <<>>
    /\ idx = 0
    /\ projects = <<>>
    /\ extracted = <<>>
    /\ ret = NotReturned
    /\ llm_formatter = None
    /\ app_i = 0
    /\ fs = <<>>
    /\ sent = <<>>
    /\ call \in {[fn |-> fn, arg |-> a, outs |-> <<>>] : a \in args}

\* y = parse_percentage(x)
ParsePercentage ==
    /\ pc = "call"
    /\ call.fn = "parse_percentage"
    /\ call.outs = <<>>
    /\ call' = [call EXCEPT !.outs = <<parse_percentage(call.arg, Fin(0))>>]
    /\ UNCHANGED <<file, now, pc, df, column_map, missing_cols, idx, projects,
                   extracted, ret, llm_formatter, app_i, fs, sent>>

\* z = parse_percentage(y)
ReparsePercentage ==
    /\ pc = "call"
    /\ call.fn = "parse_percentage"
    /\ Len(call.outs) = 1
    /\ call' = [call EXCEPT
                   !.outs = Append(@, parse_percentage(FloatCell(call.outs[1]), Fin(0)))]
    /\ UNCHANGED <<file, now, pc, df, column_map, missing_cols, idx, projects,
                   extracted, ret, llm_formatter, app_i, fs, sent>>

InitPercentage == StartCall("parse_percentage", PERCENTAGE_ARGS)

NextPercentage == ParsePercentage \/ ReparsePercentage

SpecPercentage == InitPercentage /\ [][NextPercentage]_vars

--------------------------------------------------------------------------
(* The health texts: up to MaxParts remarks separated by ', ', each remark
   written with the class it is meant to express, and the three blank
   values.  No remark, and no two remarks around the separator, spell a
   phrase of another class. *)

MaxParts == 2

REMARKS ==
    { [s |-> <<"O","n"," ","T","r","a","c","k">>, class |-> "positive"],
      [s |-> <<"o","n","-","t","r","a","c","k"," ">>, class |-> "positive"],
      [s |-> <<" ","o","n"," ","t","r","a","c","k">>, class |-> "positive"],
      [s |-> <<"A","t"," ","R","i","s","k">>, class |-> "caution"],
      [s |-> <<"A","T","-","R","I","S","K">>, class |-> "caution"],
      [s |-> <<"O","f","f"," ","T","r","a","c","k">>, class |-> "negative"],
      [s |-> <<"o","f","f","-","t","r","a","c","k">>, class |-> "negative"],
      [s |-> <<"D","e","l","a","y","e","d">>, class |-> "negative"],
      [s |-> <<"G","o","o","d">>, class |-> "neutral"],
      [s |-> <<"O","n","t","r","a","c","k">>, class |-> "neutral"],
      [s |-> <<"O","n"," ","h","o","l","d">>, class |-> "neutral"],
      [s |-> <<" ">>, class |-> "neutral"] }

\* ', '.join(remarks)
RECURSIVE JoinRemarks(_)
JoinRemarks(remarks) ==
    IF Len(remarks) = 1 THEN remarks[1].s
    ELSE remarks[1].s \o <<",", " ">> \o JoinRemarks(Tail(remarks))

HEALTH_ARGS ==
    { [value |-> StrV(JoinRemarks(r)),
       said |-> {r[i].class : i \in 1..Len(r)}] :
         r \in UNION {[1..n -> REMARKS] : n \in 1..MaxParts} }
        \cup { [value |-> v, said |-> {}] : v \in {NaN, None, StrV(<<>>)} }

\* color = determine_health_color(health)
DetermineHealthColor ==
    /\ pc = "call"
    /\ call.fn = "determine_health_color"
    /\ call.outs = <<>>
    /\ call' = [call EXCEPT !.outs = <<determine_health_color(call.arg.value)>>]
    /\ UNCHANGED <<file, now, pc, df, column_map, missing_cols, idx, projects,
                   extracted, ret, llm_formatter, app_i, fs, sent>>

InitHealth == StartCall("determine_health_color", HEALTH_ARGS)

NextHealth == DetermineHealthColor

SpecHealth == InitHealth /\ [][NextHealth]_vars

--------------------------------------------------------------------------
(* The uploads of the repetition check: the same named row twice, with an
   end date, a day count and a risk text, read while the clock runs.  The
   clock is in half days: from noon of 2 November 2026 it passes midnight
   and reaches noon of 3 November after two ticks. *)

MaxTicks == 2

H_RISKS == StrV(<<"R","i","s","k","s">>)

\* No date, 1 November 2026, 4 November 2026, 31 December 2030, the text
\* '2030-12-31' and the text 'TBC'
REPEATED_END_DATES ==
    { NaN, DateV(41518, FALSE), DateV(41522, FALSE), END_OF_2030,
      StrV(DATE_TEXT_NAIVE), TEXT_TBC }

REPEATED_FILES ==
    {Workbook(<<H_PROJECT_NAME, H_CONTRACT_END_DATE, H_DAYS_REMAINING, H_RISKS>>,
              <<(<<ALPHA, d, n, r>>), (<<ALPHA, d, n, r>>)>>) :
         d \in REPEATED_END_DATES,
         n \in {NaN, NumV(3000), NumV(250)},
         r \in {NaN, TEXT_ABC}}

\* Time passes: the next datetime.now() reads half a day later
Tick ==
    /\ now < SetMax(CLOCK) + MaxTicks
    /\ now' = now + 1
    /\ UNCHANGED <<file, pc, df, column_map, missing_cols, idx, projects,
                   extracted, ret, llm_formatter, app_i, call, fs, sent>>

InitRepeated == Start(REPEATED_FILES)

NextRepeated == Next \/ Tick

SpecRepeated == InitRepeated /\ [][NextRepeated]_vars

--------------------------------------------------------------------------
(* Text formatter (llm_integration.py) and the caller's loop over the
   records (app.py).  The provider is the environment: which one is
   configured is decided when the formatter is first built, and what it
   answers to a request is its own choice. *)

PROVIDERS == {"openai", "anthropic", "azure"}

\* LLMFormatter(): the first provider that is installed and has a key, or
\* no client
LLMFormatter == {[provider |-> p] : p \in PROVIDERS \cup {"none"}}

\* self.client is not None
is_available(self) == self.provider # "none"

placeholder_phrases ==
    << <<"o","w","n","e","r"," ","t","o"," ","s","h","a","r","e">>,
       <<"t","o"," ","b","e"," ","p","r","o","v","i","d","e","d">>,
       <<"t","b","d">>,
       <<"n","/","a">>,
       <<"n","a">>,
       <<"n","o","n","e">>,
       <<"n","i","l">>  >>

\* What a request to the provider gives: the call raises; the response has
\* no choice, no content block or no text in it; or it has a text
RESPONSE_RAISES == [t |-> "raises"]
RESPONSE_MALFORMED == [t |-> "malformed"]
ResponseText(s) == [t |-> "content", s |-> s]

\* response.choices[0].message.content.strip(), text when that raises
_format_with_openai(text, response) ==
    IF response.t = "content" THEN StrV(str_strip(response.s)) ELSE text

\* response.content[0].text.strip(), text when that raises
_format_with_anthropic(text, response) ==
    IF response.t = "content" THEN StrV(str_strip(response.s)) ELSE text

\* format_text returns before it builds a request
AnswersItself(self, text) ==
    \/ ~is_available(self)
    \/ str_strip(text.s) = <<>>
    \/ \E i \in 1..Len(placeholder_phrases) :
           str_contains(str_lower(text.s), placeholder_phrases[i])

format_text(self, text, response) ==
    IF ~is_available(self) \/ text.s = <<>> \/ str_strip(text.s) = <<>> THEN text
    ELSE IF \E i \in 1..Len(placeholder_phrases) :
                str_contains(str_lower(text.s), placeholder_phrases[i])
    THEN TO_BE_PROVIDED
    ELSE IF self.provider \in {"openai", "azure"} THEN _format_with_openai(text, response)
    ELSE IF self.provider = "anthropic" THEN _format_with_anthropic(text, response)
    ELSE text

\* get_llm_formatter(), once the global instance is there
get_llm_formatter(instance) == IF is_available(instance) THEN instance ELSE None

text_fields == {"current_activities", "future_activities", "risks", "issues", "comments"}

\* formatted_data[field] is not empty, does not start with '[' and is not 'TBD'
IsFormatted(original) ==
    original.s # <<>> /\ original.s[1] # "[" /\ original # TBD

\* The fields for which format_project_text sends a request
Requested(project_data, formatter) ==
    IF formatter = None THEN {}
    ELSE {field \in text_fields :
             IsFormatted(project_data[field])
                 /\ ~AnswersItself(formatter, project_data[field])}

\* As format_project_text, formatted_data starting empty instead of a copy
format_project_text_NoCopy(project_data, formatter, responses) ==
    IF formatter = None THEN project_data
    ELSE [field \in {f \in text_fields : IsFormatted(project_data[f])} |->
             format_text(formatter, project_data[field],
                         IF field \in DOMAIN responses THEN responses[field]
                         ELSE RESPONSE_RAISES)]

\* format_project_text(project_data), given the formatter and what the
\* provider answers for each field requested
format_project_text(project_data, formatter, responses) ==
    IF formatter = None THEN project_data
    ELSE [field \in DOMAIN project_data |->
             IF field \in text_fields /\ IsFormatted(project_data[field])
             THEN format_text(formatter, project_data[field],
                              IF field \in DOMAIN responses THEN responses[field]
                              ELSE RESPONSE_RAISES)
             ELSE project_data[field]]

\* As project_data_after, formatted_data being project_data itself
project_data_after_Aliased(project_data, formatter, responses) ==
    format_project_text_NoCopy(project_data, formatter, responses)
        @@ project_data

\* The dict project_data once format_project_text has returned: the
\* assignments go to formatted_data, which is project_data.copy()
project_data_after(project_data, formatter, responses) == project_data

\* Nothing, 'Ok' with blanks around, and the two failures
RESPONSES ==
    { RESPONSE_RAISES, RESPONSE_MALFORMED, ResponseText(<<>>),
      ResponseText(<<" ","O","k"," ">>) }

\* projects[i] = format_project_text(projects[i]), for the next i of the
\* caller's loop.  ret holds the caller's list; projects holds the dicts
\* process_excel_file built, which are the arguments of the calls; call
\* keeps the exchange: the record given and the answers
FormatProjectText ==
    /\ pc = "done"
    /\ ret.projects # None
    /\ app_i < Len(ret.projects.items)
    /\ \E instance \in (IF llm_formatter = None THEN LLMFormatter ELSE {llm_formatter}) :
         \E project_data \in {ret.projects.items[app_i + 1]} :
           \E responses \in [Requested(project_data, get_llm_formatter(instance)) -> RESPONSES] :
             /\ llm_formatter' = instance
             /\ ret' = [ret EXCEPT !.projects.items[app_i + 1] =
                           format_project_text(project_data, get_llm_formatter(instance),
                                               responses)]
             /\ projects' = [projects EXCEPT ![app_i + 1] =
                                project_data_after(project_data,
                                                   get_llm_formatter(instance), responses)]
             /\ call' = [fn |-> "format_project_text", arg |-> project_data,
                         responses |-> responses]
    /\ app_i' = app_i + 1
    /\ UNCHANGED <<file, now, pc, df, column_map, missing_cols, idx, extracted, fs, sent>>

\* The records are handed to the renderers
Formatted == pc = "done" /\ ret.projects # None /\ app_i = Len(ret.projects.items)

(* The uploads of the text check: one named row with every pair of a risk
   text and a comment, a sheet with no column of comments, and a sheet of
   two rows *)

H_COMMENTS == StrV(<<"C","o","m","m","e","n","t","s">>)
TEXT_BLANKS == StrV(<<" "," ">>)
TEXT_TBD_SMALL == StrV(<<"t","b","d">>)
TEXT_N_A == StrV(<<" ","N","/","A">>)
TEXT_BRACKETS == StrV(<<"[","x","]">>)
TEXT_A_B == StrV(<<"a"," "," ","b">>)
TEXT_FINAL == StrV(<<"F","i","n","a","l">>)

TEXT_CELLS ==
    {NaN, StrV(<<>>), TEXT_BLANKS, TEXT_TBD_SMALL, TBD, TEXT_N_A, TEXT_BRACKETS,
     TEXT_ABC, TEXT_A_B, TEXT_FINAL}

FORMAT_FILES ==
    {Workbook(<<H_PROJECT_NAME, H_RISKS, H_COMMENTS>>, <<(<<ALPHA, r, c>>)>>) :
         r \in TEXT_CELLS, c \in TEXT_CELLS}
        \cup {Workbook(<<H_PROJECT_NAME, H_RISKS>>, <<(<<ALPHA, r>>)>>) : r \in TEXT_CELLS}
        \cup {Workbook(<<H_PROJECT_NAME, H_RISKS, H_COMMENTS>>,
                       <<(<<ALPHA, TEXT_ABC, TEXT_TBD_SMALL>>),
                         (<<BETA, TEXT_A_B, NaN>>)>>)}

InitFormat == Start(FORMAT_FILES)

NextFormat == Next \/ FormatProjectText

SpecFormat == InitFormat /\ [][NextFormat]_vars

--------------------------------------------------------------------------
(* The header rows of the resolver check: every candidate name of every
   key, in MaxVariants spellings, alone and before 'Status' or 'NAME' *)

MaxVariants == 2

\* Candidate name written as listed, in small letters with blanks around,
\* or in small letters
Variant(name, v) ==
    IF v = 1 THEN name
    ELSE IF v = 2 THEN <<" ">> \o str_lower(name) \o <<" ", " ">>
    ELSE str_lower(name)

CANDIDATE_HEADERS ==
    UNION {{StrV(Variant(COLUMN_MAPPING[k][i], v)) :
                i \in 1..Len(COLUMN_MAPPING[k]), v \in 1..MaxVariants} :
               k \in DOMAIN COLUMN_MAPPING}

H_STATUS == StrV(<<"S","t","a","t","u","s">>)

HEADER_ROWS ==
    {<<h>> : h \in CANDIDATE_HEADERS}
        \cup {r \in {<<h, g>> : h \in CANDIDATE_HEADERS, g \in {H_STATUS, H_NAME_UPPER}} :
                r[1] # r[2]}

\* column_map, missing = map_columns(df)
MapColumnsOf ==
    /\ pc = "call"
    /\ call.fn = "map_columns"
    /\ call.outs = <<>>
    /\ call' = [call EXCEPT !.outs = <<map_columns(call.arg)>>]
    /\ UNCHANGED <<file, now, pc, df, column_map, missing_cols, idx, projects,
                   extracted, ret, llm_formatter, app_i, fs, sent>>

InitResolver == StartCall("map_columns", HEADER_ROWS)

NextResolver == MapColumnsOf

SpecResolver == InitResolver /\ [][NextResolver]_vars

--------------------------------------------------------------------------
(* The global formatter over the life of a process: the configuration (the
   providers that are installed and have a key in the environment) changes
   at any time, and get_llm_formatter is called up to MaxCalls times.  call
   keeps the configuration, the number of LLMFormatter() built and the
   answers of the calls. *)

MaxCalls == 3

\* LLMFormatter() under a configuration: OpenAI first, then Anthropic, then
\* Azure
LLMFormatterOf(configured) ==
    [provider |-> IF "openai" \in configured THEN "openai"
                  ELSE IF "anthropic" \in configured THEN "anthropic"
                  ELSE IF "azure" \in configured THEN "azure"
                  ELSE "none"]

\* As IsUnset, an instance without client being built again
IsUnset_OrUnavailable(instance) == instance = None \/ ~is_available(instance)

\* llm_formatter is None
IsUnset(instance) == instance = None

\* A key is set or removed: os.environ['OPENAI_API_KEY'] = api_key
Configure ==
    /\ pc = "call"
    /\ call.fn = "get_llm_formatter"
    /\ \E configured \in SUBSET PROVIDERS \ {call.configured} :
           call' = [call EXCEPT !.configured = configured]
    /\ UNCHANGED <<file, now, pc, df, column_map, missing_cols, idx, projects,
                   extracted, ret, llm_formatter, app_i, fs, sent>>

\* formatter = get_llm_formatter()
GetLlmFormatter ==
    /\ pc = "call"
    /\ call.fn = "get_llm_formatter"
    /\ Len(call.outs) < MaxCalls
    /\ \E instance \in {IF IsUnset(llm_formatter) THEN LLMFormatterOf(call.configured)
                        ELSE llm_formatter} :
           /\ llm_formatter' = instance
           /\ call' = [call EXCEPT
                          !.built = IF IsUnset(llm_formatter) THEN @ + 1 ELSE @,
                          !.outs = Append(@, get_llm_formatter(instance))]
    /\ UNCHANGED <<file, now, pc, df, column_map, missing_cols, idx, projects,
                   extracted, ret, app_i, fs, sent>>

InitSingleton ==
    /\ file = UNREADABLE
    /\ now \in CLOCK
    /\ pc = "call"
    /\ df = [columns |-> <<>>, rows |-> <<>>]
    /\ column_map = <<>>
    /\ missing_cols = <<>>
    /\ idx = 0
    /\ projects = <<>>
    /\ extracted = <<>>
    /\ ret = NotReturned
    /\ llm_formatter = None
    /\ app_i = 0
    /\ fs = <<>>
    /\ sent = <<>>
    /\ call \in {[fn |-> "get_llm_formatter", configured |-> c, built |-> 0, outs |-> <<>>] :
                     c \in SUBSET PROVIDERS}

NextSingleton == Configure \/ GetLlmFormatter

SpecSingleton == InitSingleton /\ [][NextSingleton]_vars

--------------------------------------------------------------------------
(* upload_file (app.py): the request handler around process_excel_file and
   format_project_text.  The handler reads the clock once, to the second,
   for the names of its output directory and of its ZIP file; two uploads
   that read the same value of now are uploads within the same second.
   The temporary directory outlives the requests. *)

MaxUploads == 2

ALNUM ==
    {Capitals[i] : i \in 1..Len(Capitals)} \cup {Smalls[i] : i \in 1..Len(Smalls)}
        \cup {Digits[i] : i \in 1..Len(Digits)}

\* c.isalnum() or c in (' ', '-', '_')
IsSafeChar(c) == c \in ALNUM \cup {" ", "-", "_"}

\* "".join(c for c in str(project['name'])[:50] if ...).strip().replace(' ', '_')
safe_name(name) ==
    LET s == PyStr(name)
        kept == str_strip(SelectSeq(SubSeq(s, 1, IF Len(s) < 50 THEN Len(s) ELSE 50),
                                    IsSafeChar))
    IN  [i \in 1..Len(kept) |-> IF kept[i] = " " THEN "_" ELSE kept[i]]

\* A path under tempfile.gettempdir(): pmo_reports_<timestamp>/<folder>/<stem><suffix>
OutputPath(timestamp, folder, stem, suffix) ==
    [top |-> "pmo_reports_", timestamp |-> timestamp, folder |-> folder,
     stem |-> stem, suffix |-> suffix]

\* PMO_Reports_<timestamp>.zip
ZipPath(timestamp) ==
    [top |-> "PMO_Reports_", timestamp |-> timestamp, folder |-> "",
     stem |-> <<>>, suffix |-> ".zip"]

COMBINED_NAMES ==
    {"PMO_Project_Reports_Combined.pdf", "PMO_Project_Reports_Combined.docx",
     "PMO_Project_Reports_Summary.xlsx"}

INDIVIDUAL_SUFFIXES == {"_Report.pdf", "_Report.docx"}

\* What a renderer writes: the upload it serves and the project it reports
\* on (0: all of them); a ZIP has members
Content(upload, project, members) == [by |-> upload, of |-> project, members |-> members]

\* The three combined reports
CombinedFiles(timestamp, upload) ==
    [path \in {OutputPath(timestamp, "", <<>>, name) : name \in COMBINED_NAMES} |->
        Content(upload, 0, <<>>)]

\* The individual reports, written project after project: a later project
\* replaces the file of an earlier one with the same safe_name
IndividualFiles(timestamp, upload, items) ==
    [path \in {OutputPath(timestamp, "individual_reports", safe_name(items[i].name), x) :
                   i \in 1..Len(items), x \in INDIVIDUAL_SUFFIXES} |->
        Content(upload,
                SetMax({i \in 1..Len(items) : safe_name(items[i].name) = path.stem}),
                <<>>)]

\* The archive: the combined reports, and every file os.walk finds in
\* individual_reports
ZipMembers(files, timestamp) ==
    [arc \in {[folder |-> path.folder, stem |-> path.stem, suffix |-> path.suffix] :
                  path \in {q \in DOMAIN files :
                               q.top = "pmo_reports_" /\ q.timestamp = timestamp}} |->
        files[OutputPath(timestamp, arc.folder, arc.stem, arc.suffix)]]

\* The temporary directory after the handler has written its reports
Generated(files, timestamp, upload, items) ==
    LET reports == IndividualFiles(timestamp, upload, items)
                       @@ CombinedFiles(timestamp, upload) @@ files
    IN  (ZipPath(timestamp) :> Content(upload, 0, ZipMembers(reports, timestamp)))
            @@ reports

\* jsonify(...) with its status
ErrorResponse(status, error) ==
    [status |-> status, error |-> error, project_count |-> 0, download_url |-> 0]

SuccessResponse(project_count, timestamp) ==
    [status |-> 200, error |-> None, project_count |-> project_count,
     download_url |-> timestamp]

PROCESSING_ERROR == Message("Processing error: object of type 'NoneType' has no len()")

\* As IsFailure, no error being taken for one
IsFailure_Never(error) == FALSE

\* if error:
IsFailure(error) == error # None /\ error.text # ""

\* return jsonify({'error': error}), 400
RespondError ==
    /\ pc = "done"
    /\ IsFailure(ret.error)
    /\ sent' = Append(sent, ErrorResponse(400, ret.error))
    /\ pc' = "responded"
    /\ UNCHANGED <<file, now, df, column_map, missing_cols, idx, projects, extracted,
                   ret, llm_formatter, app_i, call, fs>>

\* After the loop over the projects: the reports, the ZIP and the answer;
\* len(projects) of no list raises, which ends in the 500 answer
GenerateReports ==
    /\ pc = "done"
    /\ ~IsFailure(ret.error)
    /\ IF ret.projects = None
       THEN /\ sent' = Append(sent, ErrorResponse(500, PROCESSING_ERROR))
            /\ fs' = fs
       ELSE /\ app_i = Len(ret.projects.items)
            /\ \E written \in {Generated(fs, now, Len(sent) + 1, ret.projects.items)} :
                   fs' = written
            /\ sent' = Append(sent, SuccessResponse(Len(ret.projects.items), now))
    /\ pc' = "responded"
    /\ UNCHANGED <<file, now, df, column_map, missing_cols, idx, projects, extracted,
                   ret, llm_formatter, app_i, call>>

\* download_file(timestamp): the ZIP of that name, or 404
download_file(timestamp) ==
    IF ZipPath(timestamp) \in DOMAIN fs THEN fs[ZipPath(timestamp)] ELSE None

TEXT_ALPHA_DOT == StrV(<<"A","l","p","h","a",".">>)

\* An unreadable file, a sheet with no named row, one project, two projects,
\* two projects of the same name, and two whose names differ by a dot
UPLOAD_FILES ==
    {UNREADABLE}
        \cup {Workbook(<<H_PROJECT_NAME>>, rows) :
                  rows \in { <<(<<NaN>>)>>, <<(<<ALPHA>>)>>,
                             <<(<<ALPHA>>), (<<BETA>>)>>,
                             <<(<<ALPHA>>), (<<ALPHA>>)>>,
                             <<(<<ALPHA>>), (<<TEXT_ALPHA_DOT>>)>> }}

\* The next request, in the same second or later
NewUpload ==
    /\ pc = "responded"
    /\ Len(sent) < MaxUploads
    /\ file' \in UPLOAD_FILES
    /\ now' \in {now} \cup {t \in {now + 1} : t <= SetMax(CLOCK) + MaxTicks}
    /\ pc' = "read"
    /\ df' = [columns |-> <<>>, rows |-> <<>>]
    /\ column_map' = <<>>
    /\ missing_cols' = <<>>
    /\ idx' = 0
    /\ projects' = <<>>
    /\ extracted' = <<>>
    /\ ret' = NotReturned
    /\ app_i' = 0
    /\ call' = None
    /\ UNCHANGED <<llm_formatter, fs, sent>>

InitUpload == Start(UPLOAD_FILES)

NextUpload == Next \/ FormatProjectText \/ RespondError \/ GenerateReports \/ NewUpload

SpecUpload == InitUpload /\ [][NextUpload]_vars

--------------------------------------------------------------------------
(* The renderers' own reading of the health text: the traffic light of
   spld_health_report.py, the status box of spld_exact_format.py, and the
   counters of the summaries.  health is the field of the record, a str
   ('' for a blank or missing cell). *)

ON_TRACK == <<"o","n"," ","t","r","a","c","k">>
AT_RISK == <<"a","t"," ","r","i","s","k">>
OFF_TRACK == <<"o","f","f"," ","t","r","a","c","k">>
DELAYED == <<"d","e","l","a","y","e","d">>

\* create_health_indicator(health_status): the colour of the circle
create_health_indicator(health_status) ==
    IF str_contains(str_lower(health_status.s), ON_TRACK) THEN "green"
    ELSE IF str_contains(str_lower(health_status.s), AT_RISK) THEN "amber"
    ELSE "red"

\* health_color of create_project_status_report, variance being the
\* schedule_variance of the project
create_project_status_report(health, variance) ==
    IF str_contains(str_lower(health.s), ON_TRACK) THEN "green"
    ELSE IF str_contains(str_lower(health.s), AT_RISK) THEN "yellow"
    ELSE IF str_contains(str_lower(health.s), DELAYED)
            \/ str_contains(str_lower(health.s), OFF_TRACK) THEN "red"
    ELSE IF variance.n >= 0 - 500 THEN "green"
    ELSE IF variance.n >= 0 - 1000 THEN "yellow"
    ELSE "red"

\* The health texts of the records, with a schedule_variance of 0, -7 or -20
RENDERED_ARGS ==
    {[value |-> a.value, said |-> a.said, variance |-> Fin(v)] :
         a \in {h \in HEALTH_ARGS : h.value.t = "str"},
         v \in {0, 0 - 700, 0 - 2000}}

\* The calculator and the two renderers on the same record
RenderHealth ==
    /\ pc = "call"
    /\ call.fn = "create_health_indicator"
    /\ call.outs = <<>>
    /\ call' = [call EXCEPT
                   !.outs = << determine_health_color(call.arg.value),
                               create_health_indicator(call.arg.value),
                               create_project_status_report(call.arg.value,
                                                            call.arg.variance) >>]
    /\ UNCHANGED <<file, now, pc, df, column_map, missing_cols, idx, projects,
                   extracted, ret, llm_formatter, app_i, fs, sent>>

InitRendered == StartCall("create_health_indicator", RENDERED_ARGS)

NextRendered == RenderHealth

SpecRendered == InitRendered /\ [][NextRendered]_vars

MaxProjects == 2

\* The projects whose health text holds the phrase
Holding(healths, phrase) ==
    {i \in 1..Len(healths) : str_contains(str_lower(healths[i].s), phrase)}

\* on_track, at_risk, off_track of create_spld_dashboard and of the
\* Streamlit page
create_spld_dashboard(healths) ==
    LET on_track == Cardinality(Holding(healths, ON_TRACK))
        at_risk == Cardinality(Holding(healths, AT_RISK))
    IN  [total |-> Len(healths), on_track |-> on_track, at_risk |-> at_risk,
         off_track |-> Len(healths) - on_track - at_risk]

\* on_track, at_risk, off_track of create_summary_sheet
create_summary_sheet(healths) ==
    [total |-> Len(healths),
     on_track |-> Cardinality(Holding(healths, ON_TRACK)),
     at_risk |-> Cardinality(Holding(healths, AT_RISK)),
     off_track |-> Cardinality(Holding(healths, OFF_TRACK) \cup Holding(healths, DELAYED))]

TEXT_ON_TRACK == StrV(<<"O","n"," ","T","r","a","c","k">>)
TEXT_AT_RISK == StrV(<<"A","t"," ","R","i","s","k">>)
TEXT_OFF_TRACK == StrV(<<"O","f","f"," ","T","r","a","c","k">>)
TEXT_DELAYED == StrV(<<"D","e","l","a","y","e","d">>)
TEXT_ON_TRACK_AT_RISK ==
    StrV(<<"O","n"," ","t","r","a","c","k",","," ","a","t"," ","r","i","s","k">>)
TEXT_ON_HYPHEN_TRACK == StrV(<<"o","n","-","t","r","a","c","k">>)
TEXT_GOOD == StrV(<<"G","o","o","d">>)

SUMMARY_HEALTHS ==
    { TEXT_ON_TRACK, TEXT_AT_RISK, TEXT_OFF_TRACK, TEXT_DELAYED,
      TEXT_ON_TRACK_AT_RISK, TEXT_ON_HYPHEN_TRACK, TEXT_GOOD, StrV(<<>>) }

\* The dashboard's counters for the projects
SummarizeDashboard ==
    /\ pc = "call"
    /\ call.fn = "create_spld_dashboard"
    /\ "dashboard" \notin DOMAIN call.outs
    /\ call' = [call EXCEPT !.outs = ("dashboard" :> create_spld_dashboard(call.arg)) @@ @]
    /\ UNCHANGED <<file, now, pc, df, column_map, missing_cols, idx, projects,
                   extracted, ret, llm_formatter, app_i, fs, sent>>

\* The summary sheet's counters for the projects
SummarizeSheet ==
    /\ pc = "call"
    /\ call.fn = "create_spld_dashboard"
    /\ "sheet" \notin DOMAIN call.outs
    /\ call' = [call EXCEPT !.outs = ("sheet" :> create_summary_sheet(call.arg)) @@ @]
    /\ UNCHANGED <<file, now, pc, df, column_map, missing_cols, idx, projects,
                   extracted, ret, llm_formatter, app_i, fs, sent>>

InitSummary ==
    StartCall("create_spld_dashboard",
              UNION {[1..n -> SUMMARY_HEALTHS] : n \in 1..MaxProjects})

NextSummary == SummarizeDashboard \/ SummarizeSheet

SpecSummary == InitSummary /\ [][NextSummary]_vars

--------------------------------------------------------------------------
(* Vocabulary of the properties, stated on the upload and on the result,
   apart from the operators the ingestion itself uses *)

\* The result shapes of process_excel_file
IsRecords(r) == r.projects # None /\ r.projects.items # <<>> /\ r.error = None
IsError(r) == r.projects = None /\ r.error # None /\ r.error.text # ""

\* A cell with no value, or with white space only
Blank(cell) ==
    \/ cell = NaN
    \/ cell.t = "str" /\ \A i \in 1..Len(cell.s) : IsSpace(cell.s[i])

\* Header h is a spelling of candidate i of key k: equal to it when both are
\* compared without case and without blanks at the ends
Spells(h, k, i) == h.t = "str" /\ Folded(h.s) = FOLDED_NAMES[k][i]

AcceptedSpelling(h, k) == \E i \in 1..Len(COLUMN_MAPPING[k]) : Spells(h, k, i)

\* Some row has a name under some column headed by a spelling of project_name
HasNamedRow(f) ==
    \E j \in 1..Len(f.columns) :
        /\ AcceptedSpelling(f.columns[j], "project_name")
        /\ \E i \in 1..Len(f.rows) : ~Blank(f.rows[i][j])

\* The candidates of key k that some header of the table spells, folded
\* being the table's headers without case and without blanks at the ends
Spelled(columns, folded, k) ==
    {i \in 1..Len(COLUMN_MAPPING[k]) :
        \E j \in 1..Len(columns) :
            columns[j].t = "str" /\ folded[j] = FOLDED_NAMES[k][i]}

\* map_columns has returned
Mapped == Len(missing_cols) + Cardinality(DOMAIN column_map) > 0

Unresolved(k) == \E i \in 1..Len(missing_cols) : missing_cols[i] = k

\* The cell of row i under the header key k resolved to
CellUnder(k, i) ==
    df.rows[i][CHOOSE j \in 1..Len(df.columns) : df.columns[j] = column_map[k]]

\* The rows that carry a name, in the order of the sheet
NamedRows ==
    SelectSeq([i \in 1..Len(df.rows) |-> i],
              LAMBDA i : ~Blank(CellUnder("project_name", i)))

--------------------------------------------------------------------------
(* C1: whatever the upload, process_excel_file returns either a non-empty
   list of records and no error, or no records and a non-empty error text;
   never an empty list, never records together with an error.  Until it
   returns there is no result. *)
C1_TwoResultShapes ==
    IF pc = "done" THEN IsRecords(ret) \/ IsError(ret) ELSE ret = NotReturned

\* An exception raised while a row is extracted comes back as the error shape.
C1_Witness == pc = "done" /\ extracted # <<>> /\ IsError(ret)

(* C2: a readable sheet with at least one row that has a name under a column
   headed by any accepted spelling of project_name is ingested into a
   non-empty record list with no error, whatever its other headers and
   cells. *)
C2_NamedRowGivesRecords ==
    (pc = "done" /\ file.readable /\ HasNamedRow(file)) => IsRecords(ret)

(* C3: when project_name is unresolved, extract_project_data is called for
   no row and the call returns the 'Missing critical columns' error, also
   for a sheet without rows. *)
C3_MissingColumnBeforeRows ==
    Unresolved("project_name") =>
        /\ extracted = <<>>
        /\ pc \in {"check", "done"}
        /\ pc = "done" => ret = Result(None, MISSING_CRITICAL)

\* The error is returned for a sheet that has rows with values in them.
C3_Witness ==
    /\ pc = "done"
    /\ Unresolved("project_name")
    /\ \E i \in 1..Len(df.rows) : \E j \in 1..Len(df.columns) : ~Blank(df.rows[i][j])

(* C4: when project_name is resolved and no row has a name in that column
   (no rows at all, empty cells, white space only), the call returns an
   error and no records. *)
C4_NoNamedRowIsError ==
    (pc = "done" /\ "project_name" \in DOMAIN column_map /\ NamedRows = <<>>)
        => IsError(ret)

\* A sheet whose only names are white space ends in the error.
C4_Witness ==
    /\ pc = "done"
    /\ "project_name" \in DOMAIN column_map
    /\ NamedRows = <<>>
    /\ \E i \in 1..Len(df.rows) : CellUnder("project_name", i) = SPACES
    /\ IsError(ret)

(* C5: for each FieldKey the resolver returns a header of the table that
   spells the first candidate, in the list's order, that any header spells;
   the key is unresolved exactly when no header spells any candidate. *)
C5_FirstCandidateWins ==
    Mapped =>
        \A folded \in {FoldedColumns(df.columns)} :
            \A k \in DOMAIN COLUMN_MAPPING :
                \A spelled \in {Spelled(df.columns, folded, k)} :
                    /\ Unresolved(k) <=> spelled = {}
                    /\ k \in DOMAIN column_map <=> spelled # {}
                    /\ k \in DOMAIN column_map =>
                           /\ \E j \in 1..Len(df.columns) : df.columns[j] = column_map[k]
                           /\ Spells(column_map[k], k, SetMin(spelled))

\* A table with a header spelling the second name candidate before one that
\* spells the first (in another case, with blanks): the first candidate wins.
C5_Witness ==
    /\ Mapped
    /\ df.columns = <<H_NAME_UPPER, H_PROJECT_NAME_PADDED>>
    /\ column_map["project_name"] = H_PROJECT_NAME_PADDED

(* C6: the records returned are those of the rows that carry a name, one
   per row and in the order of the rows; a row without a name adds no record
   and is never the reason for an error when another row has a name. *)
C6_OneRecordPerNamedRow ==
    /\ (pc = "done" /\ ret.projects # None) =>
           /\ Len(ret.projects.items) = Len(NamedRows)
           /\ \A n \in 1..Len(NamedRows) :
                  /\ ret.projects.items[n].name = CellUnder("project_name", NamedRows[n])
                  /\ ret.projects.items[n] \in
                         extract_project_data(RowAt(df, NamedRows[n]), column_map, now)
    /\ (pc = "done" /\ Mapped /\ ~Unresolved("project_name") /\ NamedRows # <<>>
            /\ ret.error # None) =>
           \E n \in 1..Len(NamedRows) :
               ret.error \in {ErrorProcessing(e) :
                   e \in {x \in extract_project_data(RowAt(df, NamedRows[n]), column_map, now) :
                              "t" \in DOMAIN x}}

\* The sheet's first row has no name and a later row has one: the records
\* returned are fewer than the rows.
C6_Witness ==
    /\ pc = "done"
    /\ ret.projects # None
    /\ Len(df.rows) > Len(ret.projects.items)
    /\ Len(ret.projects.items) >= 1
    /\ NamedRows[1] > 1

\* No FieldKey is budget_total and no candidate name has 'total' in it
NO_KEY_READS_A_TOTAL ==
    /\ "budget_total" \notin DOMAIN COLUMN_MAPPING
    /\ \A k \in DOMAIN COLUMN_MAPPING : \A i \in 1..Len(COLUMN_MAPPING[k]) :
           ~str_contains(FOLDED_NAMES[k][i], <<"t","o","t","a","l">>)

\* The records extracted so far, and those returned
Records ==
    {projects[n] : n \in 1..Len(projects)} \cup
    (IF pc = "done" /\ ret.projects # None
     THEN {ret.projects.items[n] : n \in 1..Len(ret.projects.items)} ELSE {})

(* C9: in every record budget_total is budget_spent + budget_remaining,
   zero amounts included, whatever a 'Budget Total' column of the sheet
   holds: no FieldKey reads the total. *)
C9_TotalIsSum ==
    /\ \A rec \in Records :
           rec.budget_total = FAdd(rec.budget_spent, rec.budget_remaining)
    /\ NO_KEY_READS_A_TOTAL

\* A record whose sheet states another total than the sum.
C9_Witness ==
    /\ pc = "done"
    /\ df.rows[1][4] = NumV(77700)
    /\ \E rec \in Records :
           /\ rec.budget_spent = Fin(100)
           /\ rec.budget_remaining = Fin(50000)
           /\ rec.budget_total = Fin(50100)

\* The two percentages of a record add up to 100.0 within 0.1
SumsToHundred(rec) ==
    /\ IsFin(rec.budget_spent_pct)
    /\ IsFin(rec.budget_remaining_pct)
    /\ rec.budget_spent_pct.n + rec.budget_remaining_pct.n >= 10000 - 10
    /\ rec.budget_spent_pct.n + rec.budget_remaining_pct.n <= 10000 + 10

(* C10: in every record the two budget percentages add up to 100.0 within
   the rounding to one decimal (0.1) when budget_total > 0, and both are 0
   when budget_total = 0, also when spent and remaining are not zero. *)
C10_PercentagesSum ==
    \A rec \in Records :
        /\ FPositive(rec.budget_total) => SumsToHundred(rec)
        /\ rec.budget_total = Fin(0) =>
               rec.budget_spent_pct = Fin(0) /\ rec.budget_remaining_pct = Fin(0)

\* The same for the records whose two amounts are finite.
C10_FiniteAmounts ==
    \A rec \in Records :
        (IsFin(rec.budget_spent) /\ IsFin(rec.budget_remaining)) =>
            /\ FPositive(rec.budget_total) => SumsToHundred(rec)
            /\ rec.budget_total = Fin(0) =>
                   rec.budget_spent_pct = Fin(0) /\ rec.budget_remaining_pct = Fin(0)

\* Both roundings went up on a tie (0.05 % and 99.95 %): the sum is 100.1.
C10_FiniteWitness ==
    \E rec \in Records :
        /\ FPositive(rec.budget_total)
        /\ IsFin(rec.budget_spent_pct)
        /\ IsFin(rec.budget_remaining_pct)
        /\ rec.budget_spent_pct.n + rec.budget_remaining_pct.n = 10000 + 10

\* Spent and remaining cancel: the total is 0 and both percentages are 0.
C10_WitnessCancel ==
    \E rec \in Records :
        /\ rec.budget_spent # Fin(0)
        /\ rec.budget_total = Fin(0)
        /\ rec.budget_spent_pct = Fin(0)

\* Row i of the table with its cell under key k emptied
RowWithout(k, i) ==
    [RowAt(df, i) EXCEPT
        !.vals[CHOOSE j \in 1..Len(df.columns) : df.columns[j] = column_map[k]] = NaN]

\* The default of the field a parsed key feeds
HoldsDefault(rec, k) ==
    CASE k = "contract_end_date" -> rec.contract_end_date = TBD_DATE
      [] k = "days_remaining" -> TRUE
      [] k = "budget_spent" -> rec.budget_spent = Fin(0)
      [] k = "budget_remaining" -> rec.budget_remaining = Fin(0)
      [] k = "timeline_actual" -> rec.timeline_actual = Fin(0)
      [] k = "timeline_planned" -> rec.timeline_planned = Fin(0)

\* The returned result, for each cell of the one row that is among `cells`:
\* the field has its default, the record is one the row gives with that cell
\* empty, and the call failed only if it fails with that cell empty too.
AsIfBlank(cells) ==
    pc = "done" =>
        \A n \in 1..Len(PARSED_KEYS) :
            \A k \in {PARSED_KEYS[n]} :
                (k \in DOMAIN column_map /\ Len(df.rows) = 1
                    /\ CellUnder(k, 1) \in cells[k]) =>
                    \A outs \in {extract_project_data(RowWithout(k, 1), column_map, now)} :
                        IF ret.projects # None
                        THEN /\ Len(ret.projects.items) = 1
                             /\ ret.projects.items[1] \in outs
                             /\ HoldsDefault(ret.projects.items[1], k)
                        ELSE \E x \in outs : "t" \in DOMAIN x /\ ret.error = ErrorProcessing(x)

(* C7: when a cell of a row cannot be parsed (a text that is no number, no
   percentage or no date, a date where a number is due), the row is still
   extracted: the field has its default, every other field is what the row
   gives with that cell empty, and the call does not fail because of that
   cell. *)
C7_UnparseableIsBlank == AsIfBlank(UNPARSEABLE)

\* The same for the cells float() and pd.to_datetime() refuse.
C7_RefusedIsBlank == AsIfBlank(REFUSED)

\* A record returned for a row with '1.2M' spent and 'about 50' progress.
C7_RefusedWitness ==
    /\ pc = "done"
    /\ ret.projects # None
    /\ CellUnder("budget_spent", 1) = TEXT_1_2M
    /\ CellUnder("timeline_actual", 1) = TEXT_ABOUT_50
    /\ CellUnder("days_remaining", 1) = END_OF_2030
    /\ CellUnder("contract_end_date", 1) = TEXT_TBC
    /\ ret.projects.items[1].budget_remaining = Fin(50000)

\* The fields of a record
SCHEMA ==
    { "number", "name", "category", "status", "gm", "director",
      "operational_lead", "vendor", "contract_end_date", "days_remaining",
      "budget_spent", "budget_remaining", "budget_total", "budget_spent_pct",
      "budget_remaining_pct", "timeline_actual", "timeline_planned",
      "schedule_variance", "kpi", "service_performance", "health",
      "health_color", "issues", "risks", "current_activities",
      "future_activities", "comments" }

\* The field of a record an unresolved text key leaves blank or with its
\* placeholder
TextDefault(rec, k) ==
    CASE k = "project_number" -> rec.number = EMPTY
      [] k = "project_category" -> rec.category = EMPTY
      [] k = "project_status" -> rec.status = EMPTY
      [] k = "gm" -> rec.gm = EMPTY
      [] k = "director" -> rec.director = EMPTY
      [] k = "operational_lead" -> rec.operational_lead = EMPTY
      [] k = "vendor" -> rec.vendor = EMPTY
      [] k = "contract_end_date" -> rec.contract_end_date = TBD_DATE
      [] k = "kpi" -> rec.kpi = TO_BE_PROVIDED
      [] k = "service_performance" -> rec.service_performance = TBD
      [] k = "project_health" -> rec.health = EMPTY /\ rec.health_color = "gray"
      [] k = "issues" -> rec.issues = TO_BE_PROVIDED
      [] k = "risks" -> rec.risks = TO_BE_PROVIDED
      [] k = "current_activities" -> rec.current_activities = TO_BE_PROVIDED
      [] k = "future_activities" -> rec.future_activities = TO_BE_PROVIDED
      [] k = "comments" -> rec.comments = TO_BE_PROVIDED
      [] OTHER -> TRUE

\* The field of a record an unresolved amount or percentage key leaves 0
AmountDefault(rec, k) ==
    CASE k = "budget_spent" -> rec.budget_spent = Fin(0)
      [] k = "budget_remaining" -> rec.budget_remaining = Fin(0)
      [] k = "timeline_actual" -> rec.timeline_actual = Fin(0)
      [] k = "timeline_planned" -> rec.timeline_planned = Fin(0)
      [] OTHER -> TRUE

\* The one row with a blank cell under every FieldKey the sheet has no
\* column for, and the map of such a sheet
CompletedRow ==
    [index |-> [n \in 1..Len(KEYS) |-> HeaderOf(KEYS[n])],
     vals |-> [n \in 1..Len(KEYS) |->
                  IF KEYS[n] \in DOMAIN column_map THEN CellUnder(KEYS[n], 1) ELSE NaN]]

COMPLETE_MAP == [k \in DOMAIN COLUMN_MAPPING |-> HeaderOf(k)]

\* The call fails only as it fails with the missing columns present and blank
FailsOnlyByItsCells ==
    ret.projects = None =>
        \E x \in extract_project_data(CompletedRow, COMPLETE_MAP, now) :
            "t" \in DOMAIN x /\ ret.error = ErrorProcessing(x)

(* C8 as stated: whatever FieldKeys other than project_name are unresolved,
   the call does not fail for it and every record has every field of the
   schema: an unresolved text field holds its blank or placeholder default
   and an unresolved numeric field, days_remaining included, holds 0. *)
C8_UnresolvedHoldDefaults ==
    pc = "done" =>
        /\ FailsOnlyByItsCells
        /\ \A rec \in Records :
               /\ DOMAIN rec = SCHEMA
               /\ \A k \in OPTIONAL_KEYS :
                      Unresolved(k) =>
                          /\ TextDefault(rec, k)
                          /\ AmountDefault(rec, k)
                          /\ k = "days_remaining" => rec.days_remaining = 0

(* C8 amended: whatever FieldKeys other than project_name are unresolved,
   the call does not fail for it and every record has every field of the
   schema: an unresolved text field holds its blank or placeholder default,
   an unresolved amount or percentage holds 0, and days_remaining, when its
   key is unresolved, holds the days counted from contract_end_date: 0 only
   when that key is unresolved as well. *)
C8_UnresolvedHoldDefaultsButDays ==
    pc = "done" =>
        /\ FailsOnlyByItsCells
        /\ \A rec \in Records :
               /\ DOMAIN rec = SCHEMA
               /\ \A k \in OPTIONAL_KEYS :
                      Unresolved(k) =>
                          /\ TextDefault(rec, k)
                          /\ AmountDefault(rec, k)
                          /\ k = "days_remaining" =>
                                 \A days \in {calculate_days_remaining(
                                                 IF Unresolved("contract_end_date") THEN None
                                                 ELSE parse_date(CellUnder("contract_end_date", 1)),
                                                 now)} :
                                     rec.days_remaining = days.v

\* A record of a sheet with an end date and no days column: 1520 days.
C8_Witness ==
    /\ pc = "done"
    /\ Unresolved("days_remaining")
    /\ Unresolved("budget_spent")
    /\ ~Unresolved("contract_end_date")
    /\ \E rec \in Records : rec.days_remaining > 0 /\ rec.budget_spent = Fin(0)

\* A record of a sheet with the name column alone.
C8_WitnessNameOnly ==
    /\ pc = "done"
    /\ Len(df.columns) = 1
    /\ \E rec \in Records : rec.days_remaining = 0 /\ rec.kpi = TO_BE_PROVIDED

(* C11: in every record schedule_variance is round(timeline_actual -
   timeline_planned, 1), taken of the two values the record holds. *)
C11_VarianceOfStored ==
    \A rec \in Records :
        rec.schedule_variance
            \in round1(FSub(rec.timeline_actual, rec.timeline_planned))

\* A fraction of 1, or a percentage between 0 and 100
InPercentRange(x) == IsFin(x) /\ x.n >= 0 /\ x.n <= 10000

(* C15: in every record timeline_actual and timeline_planned lie between 0
   and 100, whatever the progress cells hold. *)
C15_ProgressInRange ==
    \A rec \in Records :
        InPercentRange(rec.timeline_actual) /\ InPercentRange(rec.timeline_planned)

(* C12: in every record days_remaining is a whole number >= 0, whatever the
   end date (past, today, future, none, no date at all) and the day count
   (none, zero, positive, negative, a fraction, no number) of the row. *)
C12_DaysNotNegative ==
    \A rec \in Records : rec.days_remaining \in Nat

\* A record of a row whose end date is past and whose day count is negative.
C12_Witness ==
    /\ pc = "done"
    /\ ret.projects # None
    /\ CellUnder("contract_end_date", 1) = DateV(40478, FALSE)
    /\ CellUnder("days_remaining", 1) = NumV(0 - 500)
    /\ ret.projects.items[1].days_remaining = 0

\* The whole days from the clock to the end date of row 1, 0 at least, and
\* 0 for no date
DateDerivedDays ==
    LET end_date == parse_date(CellUnder("contract_end_date", 1))
    IN  IF end_date = None THEN 0
        ELSE SetMax({0, (end_date.ticks - now) \div 2})

\* The day count row 1 states, 0 for none
ExplicitDays == parse_number(CellUnder("days_remaining", 1), Fin(0))

(* C13 as stated: days_remaining is the date-derived day count; the
   explicit day count replaces it only when the date-derived one is not
   positive and the explicit one is, and then days_remaining is the
   explicit value. *)
C13_ExplicitValueAsFallback ==
    (pc = "done" /\ ret.projects # None) =>
        \A rec \in {ret.projects.items[1]} :
            IF DateDerivedDays > 0 \/ ~FPositive(ExplicitDays)
            THEN rec.days_remaining = DateDerivedDays
            ELSE Fin(100 * rec.days_remaining) = ExplicitDays

(* C13 amended: days_remaining is the date-derived day count; the explicit
   day count replaces it only when the date-derived one is not positive and
   the explicit one is, and then days_remaining is the explicit value cut
   to a whole number. *)
C13_TruncatedValueAsFallback ==
    (pc = "done" /\ ret.projects # None) =>
        \A rec \in {ret.projects.items[1]} :
            IF DateDerivedDays > 0 \/ ~FPositive(ExplicitDays)
            THEN rec.days_remaining = DateDerivedDays
            ELSE rec.days_remaining = ExplicitDays.n \div 100

\* A past end date and 2.5 days stated: days_remaining is 2.
C13_Witness ==
    /\ pc = "done"
    /\ ret.projects # None
    /\ DateDerivedDays = 0
    /\ ExplicitDays = Fin(250)
    /\ ret.projects.items[1].days_remaining = 2

\* A future end date and 30 days stated: days_remaining is the 1519 of the date.
C13_WitnessNotOverridden ==
    /\ pc = "done"
    /\ ret.projects # None
    /\ ExplicitDays = Fin(3000)
    /\ ret.projects.items[1].days_remaining = 1519

\* x >= 0
NotNegative(x) == x = F_INF \/ (IsFin(x) /\ x.n >= 0)

(* C14: in every record budget_spent, budget_remaining and budget_total are
   amounts >= 0, whatever the budget cells hold. *)
C14_AmountsNotNegative ==
    \A rec \in Records :
        /\ NotNegative(rec.budget_spent)
        /\ NotNegative(rec.budget_remaining)
        /\ NotNegative(rec.budget_total)

(* C17: parsing a percentage and parsing the result again gives the result
   itself, for every value: parse_percentage(parse_percentage(x)) =
   parse_percentage(x). *)
C17_ReparseIsIdentity ==
    (pc = "call" /\ call.fn = "parse_percentage" /\ Len(call.outs) = 2) =>
        call.outs[2] = call.outs[1]

\* The same for the values whose percentage is 0 or above 1.
C17_ReparseAboveOne ==
    (pc = "call" /\ call.fn = "parse_percentage" /\ Len(call.outs) = 2) =>
        \/ call.outs[2] = call.outs[1]
        \/ (FAtMostOne(call.outs[1]) /\ call.outs[1] # Fin(0))

\* '40%', 0.4 and 40 parsed twice: 40.0 both times.
C17_WitnessForty ==
    /\ pc = "call"
    /\ call.arg \in {StrV(<<"4","0","%">>), NumV(40), NumV(4000)}
    /\ call.outs = <<Fin(4000), Fin(4000)>>

\* The colour of each class
COLOR_OF ==
    "positive" :> "green" @@ "caution" :> "orange" @@ "negative" :> "red"
        @@ "neutral" :> "gray"

\* The class that wins among those a text expresses
HighestClass(said) ==
    IF "positive" \in said THEN "positive"
    ELSE IF "caution" \in said THEN "caution"
    ELSE IF "negative" \in said THEN "negative"
    ELSE "neutral"

(* C18: the colour of a health text is that of the highest class among the
   classes its remarks express, positive before caution before negative,
   whatever the case of the letters and the spaces around; a text with no
   remark of these classes, a blank text and a missing value are neutral. *)
C18_HighestPriorityClass ==
    (pc = "call" /\ call.fn = "determine_health_color" /\ Len(call.outs) = 1)
        => call.outs[1] = COLOR_OF[HighestClass(call.arg.said)]

\* 'On Track, Delayed' and 'Delayed, On Track' are classified positive
C18_Witness ==
    /\ pc = "call"
    /\ call.fn = "determine_health_color"
    /\ Len(call.outs) = 1
    /\ {"positive", "negative"} \subseteq call.arg.said
    /\ call.outs[1] = "green"

\* 'AT-RISK, Off Track' is classified caution
C18_WitnessCaution ==
    /\ pc = "call"
    /\ call.fn = "determine_health_color"
    /\ Len(call.outs) = 1
    /\ call.arg.said = {"caution", "negative"}
    /\ call.outs[1] = "orange"

\* The row and the ColumnMap handed to the extractor are those read and
\* resolved from the upload
InputsUntouched ==
    (pc \in {"rows", "done"} /\ file.readable /\ extracted # <<>>)
        => /\ df = [columns |-> file.columns, rows |-> file.rows]
           /\ column_map = map_columns(df.columns).column_map

\* The i-th and the j-th record were extracted from equal rows
SameRow(i, j) == RowAt(df, extracted[i]) = RowAt(df, extracted[j])

WithoutDays(project) == [project EXCEPT !.days_remaining = 0]

(* C19 as stated: two invocations of extract_project_data with the same row
   and the same ColumnMap return equal records, whenever they run, and
   leave the row and the ColumnMap as they were. *)
C19_SameRowSameRecord ==
    /\ InputsUntouched
    /\ \A i, j \in 1..Len(projects) : SameRow(i, j) => projects[i] = projects[j]

(* C19 amended: two invocations of extract_project_data with the same row
   and the same ColumnMap return records that are equal in every field but
   days_remaining, and equal in days_remaining too when the clock has not
   moved between them; they leave the row and the ColumnMap as they were. *)
C19_SameRowSameClockSameRecord ==
    /\ InputsUntouched
    /\ \A i, j \in 1..Len(projects) :
           SameRow(i, j)
               => /\ WithoutDays(projects[i]) = WithoutDays(projects[j])
                  /\ now \in CLOCK => projects[i] = projects[j]

\* Two records of the same row that differ in days_remaining only
C19_Witness ==
    /\ Len(projects) = 2
    /\ SameRow(1, 2)
    /\ now \notin CLOCK
    /\ projects[1].days_remaining # projects[2].days_remaining
    /\ projects[1].risks = TEXT_ABC

\* Two equal records of the same row, read at the same time
C19_WitnessSameClock ==
    /\ Len(projects) = 2
    /\ SameRow(1, 2)
    /\ now \in CLOCK
    /\ projects[1].days_remaining > 0

\* The fields of a record that hold a text made by clean_text
CLEANED_FIELDS == text_fields \cup {"kpi"}

\* The placeholder phrases
RECOGNIZED_PHRASES ==
    { <<"t","b","d">>, <<"n","/","a">>, <<"n","o","n","e">>, <<"n","i","l">>,
      <<"o","w","n","e","r"," ","t","o"," ","s","h","a","r","e">>,
      <<"t","o"," ","b","e"," ","p","r","o","v","i","d","e","d">> }

\* Row i has nothing to say for key k: no column, a blank cell, or a
\* placeholder phrase in any case with blanks around
NothingStated(k, i) ==
    \/ Unresolved(k)
    \/ Blank(CellUnder(k, i))
    \/ /\ CellUnder(k, i).t = "str"
       /\ str_lower(str_strip(CellUnder(k, i).s)) \in RECOGNIZED_PHRASES

(* C16: in the records handed to the renderers, every text field for which
   the row states nothing (no column, a blank or white cell, a placeholder
   phrase) holds '[To be provided]', with and without a provider. *)
C16_PlaceholderIsCanonical ==
    Formatted
        => \A n \in 1..Len(ret.projects.items) :
               \A k \in CLEANED_FIELDS :
                   NothingStated(k, extracted[n])
                       => ret.projects.items[n][k] = TO_BE_PROVIDED

\* C16 for the cells with no value and the columns that are not there
C16_EmptyIsCanonical ==
    Formatted
        => \A n \in 1..Len(ret.projects.items) :
               \A k \in CLEANED_FIELDS :
                   (Unresolved(k) \/ CellUnder(k, extracted[n]) \in {NaN, StrV(<<>>)})
                       => ret.projects.items[n][k] = TO_BE_PROVIDED

\* format_project_text has just returned
Exchanged == pc = "done" /\ "fn" \in DOMAIN call /\ call.fn = "format_project_text"

\* The request failed: it raised, or its response is malformed or empty
Failed(response) ==
    response \in {RESPONSE_RAISES, RESPONSE_MALFORMED, ResponseText(<<>>)}

(* C20: format_project_text returns a record with the fields of the one it
   was given; with no provider it is that record; and every field whose
   request raised, or was answered by a malformed or an empty response,
   holds the string it held before. *)
C20_FailureKeepsOriginal ==
    Exchanged
        => /\ DOMAIN ret.projects.items[app_i] = DOMAIN call.arg
           /\ ~is_available(llm_formatter) => ret.projects.items[app_i] = call.arg
           /\ \A field \in DOMAIN call.responses :
                  Failed(call.responses[field])
                      => ret.projects.items[app_i][field] = call.arg[field]

\* C20 for the requests that raise and the malformed responses
C20_RaisingKeepsOriginal ==
    Exchanged
        => /\ DOMAIN ret.projects.items[app_i] = DOMAIN call.arg
           /\ ~is_available(llm_formatter) => ret.projects.items[app_i] = call.arg
           /\ \A field \in DOMAIN call.responses :
                  call.responses[field] \in {RESPONSE_RAISES, RESPONSE_MALFORMED}
                      => ret.projects.items[app_i][field] = call.arg[field]

\* A request for the risks raised and the risks are as they were
C20_WitnessRaising ==
    /\ Exchanged
    /\ "risks" \in DOMAIN call.responses
    /\ call.responses["risks"] = RESPONSE_RAISES
    /\ ret.projects.items[app_i].risks = TEXT_ABC

\* The record format_project_text has just returned
Returned == ret.projects.items[app_i]

(* C21: the record format_project_text returns has the fields of the record
   it was given and the same value in every field other than
   current_activities, future_activities, risks, issues and comments. *)
C21_OnlyTextFieldsChange ==
    Exchanged
        => /\ DOMAIN Returned = DOMAIN call.arg
           /\ \A field \in DOMAIN call.arg \ text_fields :
                  Returned[field] = call.arg[field]

\* The risks were rewritten and the rest of the record is as it was
C21_Witness ==
    /\ Exchanged
    /\ Returned.risks # call.arg.risks
    /\ Returned.budget_total = call.arg.budget_total
    /\ Returned.days_remaining = call.arg.days_remaining
    /\ Returned.health = call.arg.health

(* C22: after format_project_text has returned, the record it was given
   holds in every field the value it held before the call, with and without
   a provider, whether or not the returned record differs from it. *)
C22_InputNotMutated ==
    Exchanged => projects[app_i] = call.arg

\* A provider rewrote the risks in the returned record and the record given
\* still holds the old text
C22_Witness ==
    /\ Exchanged
    /\ is_available(llm_formatter)
    /\ Returned.risks # call.arg.risks
    /\ projects[app_i].risks = call.arg.risks

\* The texts the provider gave for a field, blanks at the ends apart
AnswersFor(field) ==
    IF field \in DOMAIN call.responses /\ call.responses[field].t = "content"
    THEN {StrV(call.responses[field].s), StrV(str_strip(call.responses[field].s))}
    ELSE {}

(* C23: each of the five free-text fields of the record returned by
   format_project_text holds the original string of the field or the string
   the provider returned for it, and nothing else. *)
C23_OriginalOrAnswer ==
    Exchanged
        => \A field \in text_fields :
               Returned[field] \in {call.arg[field]} \cup AnswersFor(field)

\* C23 with the placeholder as a third possible value
C23_OriginalAnswerOrPlaceholder ==
    Exchanged
        => \A field \in text_fields :
               Returned[field] \in {call.arg[field], TO_BE_PROVIDED} \cup AnswersFor(field)

\* No two keys of the ColumnMap hold the same header
Injective(cmap) ==
    \A k1, k2 \in DOMAIN cmap : k1 # k2 => cmap[k1] # cmap[k2]

\* No candidate name of a key is, without case and blanks at the ends, a
\* candidate name of another key
CandidatesApart ==
    \A k1, k2 \in DOMAIN COLUMN_MAPPING :
        k1 # k2 =>
            \A i \in 1..Len(COLUMN_MAPPING[k1]), j \in 1..Len(COLUMN_MAPPING[k2]) :
                FOLDED_NAMES[k1][i] # FOLDED_NAMES[k2][j]

(* C29: the ColumnMap map_columns returns assigns no header of the table to
   two FieldKeys, whatever the headers are, and no candidate name of a key
   equals a candidate name of another key once case and the blanks at the
   ends are dropped. *)
C29_ColumnMapInjective ==
    (pc = "call" /\ call.fn = "map_columns" /\ Len(call.outs) = 1)
        => /\ call.outs[1].t = "ok"
           /\ Injective(call.outs[1].column_map)
           /\ CandidatesApart

\* Two headers resolved to two keys
C29_Witness ==
    /\ pc = "call"
    /\ call.fn = "map_columns"
    /\ Len(call.outs) = 1
    /\ Cardinality(DOMAIN call.outs[1].column_map) = 2
    /\ "project_status" \in DOMAIN call.outs[1].column_map
    /\ call.outs[1].column_map["project_status"] = H_STATUS

(* C30: in a process LLMFormatter() is built at most once; from the first
   call of get_llm_formatter on the global holds that instance, and every
   call gives the answer of the first one (the instance, or None when it has
   no client), whatever keys are set or removed between the calls. *)
C30_BuiltOnce ==
    (pc = "call" /\ call.fn = "get_llm_formatter")
        => /\ call.built <= 1
           /\ call.outs # <<>> => call.built = 1 /\ llm_formatter # None
           /\ \A n \in 1..Len(call.outs) :
                  call.outs[n] = call.outs[1]
                      /\ call.outs[n] \in {None, llm_formatter}

\* No provider at the first call, a key for OpenAI set afterwards, and the
\* second call still answers None
C30_Witness ==
    /\ pc = "call"
    /\ call.fn = "get_llm_formatter"
    /\ Len(call.outs) = 2
    /\ call.outs[2] = None
    /\ "openai" \in call.configured
    /\ llm_formatter = [provider |-> "none"]

\* The number of the upload being handled
Current == IF pc = "responded" THEN Len(sent) ELSE Len(sent) + 1

\* process_excel_file has returned records and no error to this upload
Ingested ==
    pc \in {"done", "responded"} /\ ret.error = None /\ ret.projects # None

(* C24: nothing is written for an upload before process_excel_file has
   returned a record list and no error to it; an upload whose ingestion
   returned an error is answered with that error alone (status 400), and no
   file and no ZIP is written for it. *)
C24_NoOutputBeforeRecords ==
    /\ (\E path \in DOMAIN fs : fs[path].by = Current) => Ingested
    /\ (pc = "responded" /\ ~Ingested)
           => sent[Len(sent)] = ErrorResponse(400, ret.error)
    /\ pc = "responded" => (sent[Len(sent)].status = 200 <=> Ingested)

\* A second upload that failed after a first one that was served: the
\* answer is the error and the directory holds the first upload's files only
C24_Witness ==
    /\ pc = "responded"
    /\ Len(sent) = 2
    /\ sent[1].status = 200
    /\ sent[2] = ErrorResponse(400, NO_VALID_PROJECTS)
    /\ fs # <<>>
    /\ \A path \in DOMAIN fs : fs[path].by = 1

\* The uploads that were answered with a download_url
Served == {k \in 1..Len(sent) : sent[k].status = 200}

(* C25: two uploads never use the same output directory or the same ZIP
   path, also within the same second, and the download_url given to an
   upload serves the ZIP built from that upload's records. *)
C25_UploadsShareNothing ==
    /\ \A k1, k2 \in Served : k1 # k2 => sent[k1].download_url # sent[k2].download_url
    /\ \A k \in Served : download_file(sent[k].download_url).by = k

\* C25 for the uploads that read different values of the clock
C25_ApartInTime ==
    \A k1, k2 \in Served :
        (k1 # k2 /\ sent[k1].download_url # sent[k2].download_url)
            => /\ download_file(sent[k1].download_url).by = k1
               /\ \A arc \in DOMAIN download_file(sent[k1].download_url).members :
                      download_file(sent[k1].download_url).members[arc].by = k1

\* The path of an individual report of a project
IndividualPath(timestamp, project, suffix) ==
    OutputPath(timestamp, "individual_reports", safe_name(project.name), suffix)

(* C28: once an upload is served, every project of its record list has its
   own individual PDF and its own individual Word file, no two projects
   share a file path, and the folder individual_reports of the ZIP holds
   two files for each project. *)
C28_EveryProjectHasItsFiles ==
    (pc = "responded" /\ Ingested)
        => \A timestamp \in {sent[Len(sent)].download_url} :
             \A items \in {ret.projects.items} :
               /\ \A i \in 1..Len(items) : \A x \in INDIVIDUAL_SUFFIXES :
                      /\ IndividualPath(timestamp, items[i], x) \in DOMAIN fs
                      /\ fs[IndividualPath(timestamp, items[i], x)] =
                             Content(Len(sent), i, <<>>)
               /\ \A i, j \in 1..Len(items) :
                      i # j => IndividualPath(timestamp, items[i], "_Report.pdf")
                                   # IndividualPath(timestamp, items[j], "_Report.pdf")
               /\ Cardinality({arc \in DOMAIN download_file(timestamp).members :
                                   arc.folder = "individual_reports"})
                      = 2 * Len(items)

\* C28 for the uploads whose projects have different safe names, served in
\* a second of their own
C28_ApartNames ==
    (pc = "responded" /\ Ingested)
        => \A timestamp \in {sent[Len(sent)].download_url} :
             \A items \in {ret.projects.items} :
               ((\A i, j \in 1..Len(items) :
                     i # j => safe_name(items[i].name) # safe_name(items[j].name))
                  /\ \A k \in Served \ {Len(sent)} : sent[k].download_url # timestamp)
               => /\ \A i \in 1..Len(items) : \A x \in INDIVIDUAL_SUFFIXES :
                         /\ IndividualPath(timestamp, items[i], x) \in DOMAIN fs
                         /\ fs[IndividualPath(timestamp, items[i], x)] =
                                Content(Len(sent), i, <<>>)
                  /\ Cardinality({arc \in DOMAIN download_file(timestamp).members :
                                      arc.folder = "individual_reports"})
                         = 2 * Len(items)

\* The class a colour stands for
CLASS_OF ==
    "green" :> "positive" @@ "orange" :> "caution" @@ "amber" :> "caution"
        @@ "yellow" :> "caution" @@ "red" :> "negative" @@ "gray" :> "neutral"

\* The calculator and both renderers have classified the text
Rendered == pc = "call" /\ call.fn = "create_health_indicator" /\ Len(call.outs) = 3

(* C26: for every health text the class the traffic light and the status
   box show is the class determine_health_color gives to the same text,
   blank texts, hyphenated forms and texts with none of the phrases
   included. *)
C26_RenderersAgree ==
    Rendered
        => /\ CLASS_OF[call.outs[2]] = CLASS_OF[call.outs[1]]
           /\ CLASS_OF[call.outs[3]] = CLASS_OF[call.outs[1]]

\* C26 for the texts that hold 'on track', and for those that hold 'at risk'
\* and no hyphenated 'on-track'
C26_AgreeOnSpacedPhrases ==
    Rendered
        => \A status \in {str_lower(call.arg.value.s)} :
               /\ str_contains(status, ON_TRACK)
                      => {call.outs[n] : n \in 1..3} = {"green"}
               /\ (str_contains(status, AT_RISK) /\ ~str_contains(status, ON_TRACK)
                       /\ ~str_contains(status, <<"o","n","-","t","r","a","c","k">>))
                      => {CLASS_OF[call.outs[n]] : n \in 1..3} = {"caution"}

\* Both summaries have counted the projects
Summarized ==
    pc = "call" /\ call.fn = "create_spld_dashboard"
        /\ DOMAIN call.outs = {"dashboard", "sheet"}

\* The three counters are not negative and add up to the total
Partitions(counts) ==
    /\ counts.on_track >= 0
    /\ counts.at_risk >= 0
    /\ counts.off_track >= 0
    /\ counts.on_track + counts.at_risk + counts.off_track = counts.total

(* C27: in the summaries of the reports the counters on-track, at-risk and
   off-track are not negative and add up to the number of projects,
   whatever the health texts are. *)
C27_BucketsPartition ==
    Summarized
        => Partitions(call.outs["dashboard"]) /\ Partitions(call.outs["sheet"])

\* C27 for the dashboard, when no text holds both 'on track' and 'at risk'
C27_DashboardApart ==
    (Summarized /\ Holding(call.arg, ON_TRACK) \cap Holding(call.arg, AT_RISK) = {})
        => Partitions(call.outs["dashboard"])

====
